---- MODULE Spec2Model ----
(***************************************************************************)
(* Query orchestration pipeline of the document question-answering         *)
(* service: app/services/rag_service.py with its collaborators             *)
(* (conversation_service, model_service, retrieval, utils/helpers).        *)
(*                                                                         *)
(* Text is a sequence of one-character strings.  Scores are integers in    *)
(* units of 1/10000 (0.30 is 3000).  Every request is one task; its local  *)
(* variables are functions of the task.                                    *)
(***************************************************************************)
EXTENDS Integers, Sequences, FiniteSets, TLC

(* ------------------------------ bounds -------------------------------- *)
\* number of request tasks the model provides
NumTasks == 2
\* most fragments a provider streams for one classification call
MaxClsFrags == 2
\* most fragments a provider streams for one generation call
MaxGenFrags == 2
\* largest top_k a request carries in the model (the schema allows 20)
MaxTopK == 7
\* longest chunk list dedupe_sources is called on by itself
MaxDedupeChunks == 3
\* longest of the short texts simple_chunks is run on
MaxShortText == 3
\* most pieces a model identifier is put together from
MaxModelPieces == 3
\* most requests the conversation routes are sent
MaxRequests == 3
\* longest of the short chunk lists _build_context is called on by itself
MaxContextRows == 3

(* ------------------------- program constants -------------------------- *)
\* sorted(...)[:5]
MaxContextChunks == 5
\* float(c["score"]) >= 0.30
CitationThreshold == 3000
\* chunks[:2]
FallbackCount == 2
\* data["content"][:200]
PreviewLen == 200
\* chunk["content"][:800]
ContextCharLimit == 800
\* AskBody.min_score default 0.15
DefaultMinScore == 1500
\* simple_chunks(text, target_chars=1200, overlap=150)
target_chars == 1200
overlap == 150
\* j - k <= 180
MaxCutBack == 180

\* Optional[T]: None is the empty sequence, a present value x is <<x>>
None == <<>>
Some(x) == <<x>>

Tasks == 1..NumTasks

(* ------------------------------- text --------------------------------- *)
Whitespace == {" ", "\n", "\t"}

UpperAlpha == <<"A","B","C","D","E","F","G","H","I","J","K","L","M",
                "N","O","P","Q","R","S","T","U","V","W","X","Y","Z">>
LowerAlpha == <<"a","b","c","d","e","f","g","h","i","j","k","l","m",
                "n","o","p","q","r","s","t","u","v","w","x","y","z">>

LowerChar(c) ==
    IF \E i \in 1..26 : UpperAlpha[i] = c
    THEN LowerAlpha[CHOOSE i \in 1..26 : UpperAlpha[i] = c]
    ELSE c

\* str.lower()
Lower(s) == [i \in 1..Len(s) |-> LowerChar(s[i])]

\* s[:n]
Take(s, n) == IF Len(s) <= n THEN s ELSE SubSeq(s, 1, n)

\* str.lstrip(): from the first character that is not whitespace
LStrip(s) ==
    IF \A p \in 1..Len(s) : s[p] \in Whitespace THEN <<>>
    ELSE SubSeq(s,
                CHOOSE p \in 1..Len(s) :
                    /\ s[p] \notin Whitespace
                    /\ \A q \in 1..(p - 1) : s[q] \in Whitespace,
                Len(s))

\* str.rstrip(): up to the last character that is not whitespace
RStrip(s) ==
    IF \A p \in 1..Len(s) : s[p] \in Whitespace THEN <<>>
    ELSE SubSeq(s, 1,
                CHOOSE p \in 1..Len(s) :
                    /\ s[p] \notin Whitespace
                    /\ \A q \in (p + 1)..Len(s) : s[q] \in Whitespace)

\* str.strip()
Strip(s) == RStrip(LStrip(s))

\* str.startswith(p)
StartsWith(s, p) == Len(s) >= Len(p) /\ SubSeq(s, 1, Len(p)) = p

\* str.replace(old, ""): every occurrence of old is removed, left to right
RECURSIVE RemoveAll(_, _)
RemoveAll(s, old) ==
    IF s = <<>> THEN <<>>
    ELSE IF StartsWith(s, old)
         THEN RemoveAll(SubSeq(s, Len(old) + 1, Len(s)), old)
         ELSE <<Head(s)>> \o RemoveAll(Tail(s), old)

\* concatenation of a sequence of texts
RECURSIVE Concat(_)
Concat(ss) == IF ss = <<>> THEN <<>> ELSE Head(ss) \o Concat(Tail(ss))

\* "sep".join(parts)
RECURSIVE Join(_, _)
Join(parts, sep) ==
    IF parts = <<>> THEN <<>>
    ELSE IF Len(parts) = 1 THEN parts[1]
    ELSE parts[1] \o sep \o Join(Tail(parts), sep)

Digits == <<"0","1","2","3","4","5","6","7","8","9">>

\* str(n) for n >= 0
RECURSIVE IntToText(_)
IntToText(n) ==
    IF n < 10 THEN <<Digits[n + 1]>>
    ELSE IntToText(n \div 10) \o <<Digits[(n % 10) + 1]>>

(* --------------------------- model_service ---------------------------- *)
OpenAIPrefix == <<"o","p","e","n","a","i",":">>
OllamaPrefix == <<"o","l","l","a","m","a",":">>

\* openai_client.MODEL, os.getenv("OPENAI_MODEL", "gpt-4o-mini")
DEFAULT_OPENAI_MODEL == <<"g","p","t","-","4","o","-","m","i","n","i">>

\* resolve_model(model_string) -> (provider, model_name)
resolve_model(model_string) ==
    IF model_string = None \/ model_string[1] = <<>>
    THEN [provider |-> "openai", model_name |-> DEFAULT_OPENAI_MODEL]
    ELSE IF StartsWith(model_string[1], OpenAIPrefix)
    THEN [provider |-> "openai",
          model_name |-> RemoveAll(model_string[1], OpenAIPrefix)]
    ELSE IF StartsWith(model_string[1], OllamaPrefix)
    THEN [provider |-> "ollama",
          model_name |-> RemoveAll(model_string[1], OllamaPrefix)]
    ELSE [provider |-> "openai", model_name |-> DEFAULT_OPENAI_MODEL]

(* ------------------------- intent classifier -------------------------- *)
Greeting == <<"g","r","e","e","t","i","n","g">>
Help == <<"h","e","l","p">>
Factual == <<"f","a","c","t","u","a","l">>

IntentTokens == {Greeting, Help, Factual}

\* the fixed instructional template around the question
ClassificationPromptHead == <<"Classify the following user question ... Question: \"">>
ClassificationPromptTail == <<"\" ... Respond with ONLY ONE WORD ... Classification:">>

classification_prompt(question) ==
    ClassificationPromptHead \o question \o ClassificationPromptTail

\* ParseIntent accepting an output that only begins with a token
ParseIntent_Prefix(response_text) ==
    LET intent == Lower(Strip(response_text))
        hit == {tok \in IntentTokens : StartsWith(intent, tok)}
    IN  IF hit # {} THEN CHOOSE tok \in hit : TRUE ELSE Factual

\* the parse of the accumulated output: strip, lower, exact membership
ParseIntent(response_text) ==
    LET intent == Lower(Strip(response_text))
    IN  IF intent \in IntentTokens THEN intent ELSE Factual

(* --------------------------- text_extraction -------------------------- *)
\* whitespace that str.split() removes inside a line
InlineWhitespace == Whitespace \ {"\n"}

\* text[a:b] for 0 <= a <= b <= len(text)
Slice(text, a, b) == SubSeq(text, a + 1, b)

\* text.rfind(sub, a, b): the highest index in [a, b - len(sub)] where sub
\* occurs, -1 if there is none
RFind(text, sub, a, b) ==
    LET at == {p \in a..(b - Len(sub)) :
                 \A d \in 1..Len(sub) : text[p + d] = sub[d]}
    IN  IF at = {} THEN -1 ELSE CHOOSE p \in at : \A q \in at : q <= p

\* '\n'.join(' '.join(line.split()) for line in text.split('\n')): a run of
\* blanks inside a line becomes one space, a run at either end of a line goes
NormalizeLines(text) ==
    LET n == Len(text)
        Keep(p) ==
            IF text[p] \notin InlineWhitespace THEN TRUE
            ELSE /\ p > 1
                 /\ text[p - 1] \notin Whitespace
                 /\ LET rest == {q \in (p + 1)..n : text[q] \notin InlineWhitespace}
                    IN  /\ rest # {}
                        /\ text[CHOOSE q \in rest : \A r \in rest : q <= r] # "\n"
        marks == [p \in 1..n |->
                    [c |-> IF text[p] \in InlineWhitespace THEN " " ELSE text[p],
                     keep |-> Keep(p)]]
        kept == SelectSeq(marks, LAMBDA m : m.keep)
    IN  [q \in 1..Len(kept) |-> kept[q].c]

\* Cut taking the last space however far it is from j
Cut_AnySpace(text, i, j) ==
    LET k1 == RFind(text, <<"\n", "\n">>, i, j)
        k2 == RFind(text, <<"\n">>, i, j)
        k3 == RFind(text, <<".", " ">>, i, j)
        k4 == RFind(text, <<" ">>, i, j)
    IN  IF k1 # -1 THEN k1 + 2
        ELSE IF k2 # -1 THEN k2 + 1
        ELSE IF k3 # -1 /\ j - k3 <= MaxCutBack THEN k3 + 2
        ELSE IF k4 = -1 THEN j
        ELSE k4

\* the cut k of one iteration: paragraph boundary, else line boundary, else
\* sentence end or word boundary no more than 180 before j, else j
Cut(text, i, j) ==
    LET k1 == RFind(text, <<"\n", "\n">>, i, j)
        k2 == RFind(text, <<"\n">>, i, j)
        k3 == RFind(text, <<".", " ">>, i, j)
        k4 == RFind(text, <<" ">>, i, j)
    IN  IF k1 # -1 THEN k1 + 2
        ELSE IF k2 # -1 THEN k2 + 1
        ELSE IF k3 # -1 /\ j - k3 <= MaxCutBack THEN k3 + 2
        ELSE IF k4 = -1 \/ j - k4 > MaxCutBack THEN j
        ELSE k4

\* NextStart without the step forward
NextStart_NoProgress(k, i) == k - overlap

\* NextStart placed after the cut
NextStart_PastCut(k, i) == k + 1

\* i = max(k - overlap, i + 1)
NextStart(k, i) == IF k - overlap >= i + 1 THEN k - overlap ELSE i + 1

(* --------------------------- document store --------------------------- *)
Docs == {"d1", "d2"}

DocFilename == [d \in Docs |-> IF d = "d1" THEN "a.txt" ELSE "b.txt"]

\* the rows of table chunks that each document brings with it
ChunkTable ==
    <<[id |-> 1, document_id |-> "d1", chunk_index |-> 0, content |-> <<"x">>],
      [id |-> 2, document_id |-> "d1", chunk_index |-> 1, content |-> <<" ","y">>],
      [id |-> 3, document_id |-> "d1", chunk_index |-> 2, content |-> <<"z"," ">>],
      [id |-> 4, document_id |-> "d1", chunk_index |-> 3, content |-> <<"w">>],
      [id |-> 5, document_id |-> "d2", chunk_index |-> 0, content |-> <<"u","v">>],
      [id |-> 6, document_id |-> "d2", chunk_index |-> 1, content |-> <<"v">>],
      [id |-> 7, document_id |-> "d2", chunk_index |-> 2, content |-> <<"t">>]>>

ChunkIds == 1..Len(ChunkTable)

\* 1 - cosine distance between the question's and the chunk's embedding:
\* a fixed function of the two texts (embed_texts is deterministic)
ScoresA == <<4512, 4512, 3208, 1001, 3208, 3208, 502>>
ScoresB == <<1204, 803, -101, 0, 2806, 1204, 2997>>

Score(question, id) ==
    IF question = <<"a">> THEN ScoresA[id] ELSE ScoresB[id]

\* the chunks of the documents present (chunks JOIN documents)
StoredChunks(docs) == {id \in ChunkIds : ChunkTable[id].document_id \in docs}

\* SELECT COUNT(*) FROM documents ... result > 0
_has_any_documents(docs) == docs # {}

Row(question, id) ==
    [id |-> id,
     document_id |-> ChunkTable[id].document_id,
     filename |-> DocFilename[ChunkTable[id].document_id],
     chunk_index |-> ChunkTable[id].chunk_index,
     content |-> ChunkTable[id].content,
     score |-> Score(question, id)]

\* ORDER BY distance LIMIT k over normalized embeddings: the k nearest
\* chunks, best score first; rows of equal distance come in any order
RECURSIVE RankedIds(_, _, _)
RankedIds(question, ids, k) ==
    IF k = 0 \/ ids = {} THEN {<<>>}
    ELSE LET best == {c \in ids :
                        \A d \in ids : Score(question, c) >= Score(question, d)}
         IN  UNION {{<<c>> \o r : r \in RankedIds(question, ids \ {c}, k - 1)}
                    : c \in best}

\* search_similar(query, top_k): the possible results on store docs
search_similar(query, top_k, docs) ==
    {[i \in 1..Len(r) |-> Row(query, r[i])]
        : r \in RankedIds(query, StoredChunks(docs), top_k)}

(* --------------------------- retrieval gate --------------------------- *)
\* StrongChunks without the fallback to the first raw candidates
StrongChunks_NoFallback(rows, min_score) ==
    SelectSeq(rows, LAMBDA c : c.score >= min_score)

\* StrongChunks falling back only to candidates that reach the default
\* threshold
StrongChunks_FallbackAboveDefault(rows, min_score) ==
    LET strong == SelectSeq(rows, LAMBDA c : c.score >= min_score)
    IN  IF strong = <<>> /\ rows # <<>> /\ rows[1].score >= DefaultMinScore
        THEN Take(rows, FallbackCount)
        ELSE strong

\* strong_chunks = [c for c in chunks if float(c["score"]) >= min_score];
\* if not strong_chunks and chunks: strong_chunks = chunks[:2]
StrongChunks(rows, min_score) ==
    LET strong == SelectSeq(rows, LAMBDA c : c.score >= min_score)
    IN  IF strong = <<>> /\ rows # <<>> THEN Take(rows, FallbackCount)
        ELSE strong

\* one step of a stable sort by score, best first: c goes after every
\* element whose score is at least its own
RECURSIVE InsertByScore(_, _)
InsertByScore(sorted, c) ==
    IF sorted = <<>> THEN <<c>>
    ELSE IF Head(sorted).score >= c.score
         THEN <<Head(sorted)>> \o InsertByScore(Tail(sorted), c)
         ELSE <<c>> \o sorted

\* sorted(xs, key=score, reverse=True): stable
RECURSIVE SortByScoreDesc(_)
SortByScoreDesc(xs) ==
    IF xs = <<>> THEN <<>>
    ELSE InsertByScore(SortByScoreDesc(SubSeq(xs, 1, Len(xs) - 1)), xs[Len(xs)])

\* SortedChunks without the cut to five
SortedChunks_NoLimit(strong) == SortByScoreDesc(strong)

\* sorted_chunks = sorted(strong_chunks, key=score, reverse=True)[:5]
SortedChunks(strong) == Take(SortByScoreDesc(strong), MaxContextChunks)

\* RelevantChunks without the citation threshold
RelevantChunks_All(sorted) == sorted

\* relevant_chunks = [c for c in sorted_chunks if float(c["score"]) >= 0.30]
RelevantChunks(sorted) ==
    SelectSeq(sorted, LAMBDA c : c.score >= CitationThreshold)

(* --------------------------- utils/helpers ---------------------------- *)
\* chunk.get("content", "")
ContentOf(chunk) == IF "content" \in DOMAIN chunk THEN chunk.content ELSE <<>>

\* SourceMap with an entry replaced also by a chunk of equal score
RECURSIVE SourceMap_LastOnTie(_)
SourceMap_LastOnTie(rows) ==
    IF rows = <<>> THEN <<>>
    ELSE LET m == SourceMap_LastOnTie(SubSeq(rows, 1, Len(rows) - 1))
             c == rows[Len(rows)]
             e == [filename |-> c.filename, score |-> c.score,
                   content |-> ContentOf(c)]
             at == {i \in 1..Len(m) : m[i].filename = c.filename}
         IN  IF at = {} THEN Append(m, e)
             ELSE LET i == CHOOSE i \in at : TRUE
                  IN  IF c.score >= m[i].score THEN [m EXCEPT ![i] = e] ELSE m

\* the loop over chunks: source_map in insertion order, an entry replaced
\* in place when a chunk of the same filename scores strictly higher
RECURSIVE SourceMap(_)
SourceMap(rows) ==
    IF rows = <<>> THEN <<>>
    ELSE LET m == SourceMap(SubSeq(rows, 1, Len(rows) - 1))
             c == rows[Len(rows)]
             e == [filename |-> c.filename, score |-> c.score,
                   content |-> ContentOf(c)]
             at == {i \in 1..Len(m) : m[i].filename = c.filename}
         IN  IF at = {} THEN Append(m, e)
             ELSE LET i == CHOOSE i \in at : TRUE
                  IN  IF c.score > m[i].score THEN [m EXCEPT ![i] = e] ELSE m

\* round(score, 3) on a score in units of 1/10000 (no table score lies on
\* an exact half)
Round3(score) == ((score + 5) \div 10) * 10

Ellipsis == <<".", ".", ".">>

\* preview = content[:200].strip(), "..." appended when len(content) > 200
Preview(content) ==
    Strip(Take(content, PreviewLen))
        \o (IF Len(content) > PreviewLen THEN Ellipsis ELSE <<>>)

\* dedupe_sources(chunks)
dedupe_sources(rows) ==
    LET items == SortByScoreDesc(SourceMap(rows))
    IN  [i \in 1..Len(items) |->
            [filename |-> items[i].filename,
             score |-> Round3(items[i].score),
             preview |-> Preview(items[i].content)]]

(* -------------------------- context builder --------------------------- *)
ContextSeparator == <<"\n","\n","-","-","-","\n","\n">>

\* ContextPart numbering from zero
ContextPart_ZeroBased(i, chunk) ==
    <<"[">> \o IntToText(i - 1) \o <<"]", " ">> \o Take(chunk.content, ContextCharLimit)

\* f"[{i}] {content}" with content = chunk["content"][:800]
ContextPart(i, chunk) ==
    <<"[">> \o IntToText(i) \o <<"]", " ">> \o Take(chunk.content, ContextCharLimit)

\* _build_context(chunks)
_build_context(rows) ==
    Join([i \in 1..Len(rows) |-> ContextPart(i, rows[i])], ContextSeparator)

(* ------------------------------ prompts ------------------------------- *)
GreetingSystemPrompt == <<"You are a helpful document assistant. ...">>
RagSystemPrompt == <<"You are a strict Document Grounding Assistant. ...">>
QuestionLabel == <<"QUESTION: ">>
ContextLabel == <<"\n\nCONTEXT:\n">>

no_docs_message == <<"Please upload documents first before asking questions. Go to the 'Documents' tab to upload PDF, DOCX, or TXT files.">>
no_info_message == <<"I don't have information about that in the uploaded documents. Try asking a more specific question, or upload relevant documents first.">>

\* messages = [system] + history turns + [user turn]
BuildMessages(system_prompt, history, user_content) ==
    <<[role |-> "system", content |-> system_prompt]>>
        \o [i \in 1..Len(history) |->
               [role |-> history[i].role, content |-> history[i].content]]
        \o <<[role |-> "user", content |-> user_content]>>

\* f"QUESTION: {question}\n\nCONTEXT:\n{context}"
RagUserContent(q, ctx) == QuestionLabel \o q \o ContextLabel \o ctx

(* ------------------------------- wire --------------------------------- *)
\* json.dumps(x): the serialized form of x
JsonDumps(x) == [json |-> x]

\* timestamp.isoformat()
IsoFormat(ts) == [iso |-> ts]

MetaEvent(srcs) == [type |-> "meta", sources |-> srcs]
DeltaEvent(delta) == [type |-> "delta", text |-> delta]
DoneEvent == [type |-> "done"]
FinalEvent(txt, grounded, srcs, prov, model, cid, ts) ==
    [type |-> "final", text |-> txt, grounded |-> grounded, sources |-> srcs,
     model_provider |-> prov, model_name |-> model, conversation_id |-> cid,
     timestamp |-> IsoFormat(ts)]

(* ------------------------------- state -------------------------------- *)
VARIABLES
    documents,          \* table documents: the documents present
    conversations,      \* table conversations: the ids present
    next_conversation_id, \* the id sequence of table conversations
    messages,           \* table conversation_messages, in insertion order
    pc,                 \* where each task's handle_rag_query stands
    payload,            \* the AskBody of the task's request
    question, provider, model_name, chat_id,   \* locals of handle_rag_query
    intent, has_documents,
    chunks, strong_chunks, sorted_chunks, sources, context,
    path,               \* the response generator handle_rag_query delegated to
    llm_messages,       \* the messages list of the task's current provider call
    response_text,      \* accumulator of _classify_question_intent
    full_response,      \* accumulator of the streaming generator
    provider_status,    \* the provider's stream of the task's current call
    provider_out,       \* the fragments that stream has delivered so far
    llm_calls,          \* every provider call the task has made, in order
    retrieval_calls,    \* number of search_similar calls the task has made
    events,             \* the events the task's stream has carried so far
    dedupe_chunks,      \* the argument of a call of dedupe_sources
    dedupe_returned,    \* what dedupe_sources returned, call after call
    model_string,       \* the argument of a call of resolve_model
    resolved,           \* what resolve_model returned (None before the call)
    doc_text,           \* the argument of a call of simple_chunks
    sc_pc,              \* where simple_chunks stands
    sc_text,            \* its local text, normalized
    sc_i,               \* its local i, the start of the next slice
    sc_slices,          \* the (start, cut, site) of every slice taken so far
    parts,              \* list(simple_chunks(doc_text)): the strings yielded
    responses,          \* what the conversation and ask routes have answered
    context_rows,       \* the argument of a call of _build_context
    context_built       \* what _build_context returned, call after call

shared == <<documents, conversations, next_conversation_id, messages>>
request == <<payload, question, provider, model_name, chat_id>>
gate == <<chunks, strong_chunks, sorted_chunks, sources, context>>
llm == <<llm_messages, provider_status, provider_out, llm_calls>>
service == <<shared, pc, request, intent, has_documents, gate, path, llm,
            response_text, full_response, retrieval_calls, events>>
dedupe == <<dedupe_chunks, dedupe_returned>>
resolve == <<model_string, resolved>>
chunker == <<doc_text, sc_pc, sc_text, sc_i, sc_slices, parts>>
routes == <<responses>>
builder == <<context_rows, context_built>>
units == <<dedupe, resolve, chunker, routes, builder>>
vars == <<service, units>>

Upd(f, t, v) == [f EXCEPT ![t] = v]

\* a row of conversation_messages; by is the request that inserted it
MessageRow(cid, role, content, prov, model, srcs, t) ==
    [conversation_id |-> cid, role |-> role, content |-> content,
     model_provider |-> prov, model_name |-> model, sources |-> srcs,
     created_at |-> Len(messages) + 1, by |-> t]

\* store_message(...) for a user message: provider, model, sources are NULL
UserRow(cid, content, t) ==
    MessageRow(cid, "user", content, None, None, None, t)

\* store_message(...) for an assistant message: sources_json = json.dumps(sources)
AssistantRow(cid, content, prov, model, srcs, t) ==
    MessageRow(cid, "assistant", content, Some(prov), Some(model),
               Some(JsonDumps(srcs)), t)

\* An earlier question (asked on an empty store, without a conversation id)
\* has left conversation 1 with its two messages.
ServiceInit ==
    /\ documents = {}
    /\ conversations = {1}
    /\ next_conversation_id = 2
    /\ messages =
         <<[conversation_id |-> 1, role |-> "user", content |-> <<"a">>,
            model_provider |-> None, model_name |-> None, sources |-> None,
            created_at |-> 1, by |-> 0],
           [conversation_id |-> 1, role |-> "assistant",
            content |-> no_docs_message,
            model_provider |-> Some("openai"),
            model_name |-> Some(DEFAULT_OPENAI_MODEL),
            sources |-> Some(JsonDumps(<<>>)),
            created_at |-> 2, by |-> 0]>>
    /\ pc = [t \in Tasks |-> "idle"]
    /\ payload = [t \in Tasks |-> None]
    /\ question = [t \in Tasks |-> <<>>]
    /\ provider = [t \in Tasks |-> "openai"]
    /\ model_name = [t \in Tasks |-> <<>>]
    /\ chat_id = [t \in Tasks |-> 0]
    /\ intent = [t \in Tasks |-> <<>>]
    /\ has_documents = [t \in Tasks |-> FALSE]
    /\ chunks = [t \in Tasks |-> <<>>]
    /\ strong_chunks = [t \in Tasks |-> <<>>]
    /\ sorted_chunks = [t \in Tasks |-> <<>>]
    /\ sources = [t \in Tasks |-> <<>>]
    /\ context = [t \in Tasks |-> <<>>]
    /\ path = [t \in Tasks |-> "none"]
    /\ llm_messages = [t \in Tasks |-> <<>>]
    /\ response_text = [t \in Tasks |-> <<>>]
    /\ full_response = [t \in Tasks |-> <<>>]
    /\ provider_status = [t \in Tasks |-> "none"]
    /\ provider_out = [t \in Tasks |-> <<>>]
    /\ llm_calls = [t \in Tasks |-> <<>>]
    /\ retrieval_calls = [t \in Tasks |-> 0]
    /\ events = [t \in Tasks |-> <<>>]

\* no call of dedupe_sources outside the pipeline
DedupeIdle == dedupe_chunks = <<>> /\ dedupe_returned = <<>>

\* no call of resolve_model outside the pipeline
ResolveIdle == model_string = None /\ resolved = None

\* no upload is chunking a text
ChunkerIdle ==
    /\ doc_text = <<>>
    /\ sc_pc = "idle"
    /\ sc_text = <<>>
    /\ sc_i = 0
    /\ sc_slices = <<>>
    /\ parts = <<>>

\* no conversation route has answered yet
RoutesIdle == responses = <<>>

\* no call of _build_context outside the pipeline
BuilderIdle == context_rows = <<>> /\ context_built = <<>>

Init ==
    /\ ServiceInit /\ DedupeIdle /\ ResolveIdle /\ ChunkerIdle
    /\ RoutesIdle /\ BuilderIdle

(* ------------------------- the document routes ------------------------ *)
\* POST /api/documents/upload: the document and its chunks are inserted
UploadDocument(d) ==
    /\ d \notin documents
    /\ documents' = documents \cup {d}
    /\ UNCHANGED <<units, conversations, next_conversation_id, messages, pc, request,
                   intent, has_documents, gate, path, llm, response_text,
                   full_response, retrieval_calls, events>>

\* DELETE /api/documents/{doc_id}: the document goes, its chunks cascade
DeleteDocument(d) ==
    /\ d \in documents
    /\ documents' = documents \ {d}
    /\ UNCHANGED <<units, conversations, next_conversation_id, messages, pc, request,
                   intent, has_documents, gate, path, llm, response_text,
                   full_response, retrieval_calls, events>>

(* -------------------------- handle_rag_query -------------------------- *)
\* the provider call of the task begins: _stream_openai / _stream_ollama
StartCall(t, kind, msgs) ==
    /\ llm_messages' = Upd(llm_messages, t, msgs)
    /\ provider_status' = Upd(provider_status, t, "streaming")
    /\ provider_out' = Upd(provider_out, t, <<>>)
    /\ llm_calls' = Upd(llm_calls, t,
                        Append(llm_calls[t], [kind |-> kind, messages |-> msgs]))

\* ChatTurn.role: Literal["system", "user", "assistant"]
Roles == {"system", "user", "assistant"}

\* the constraints of AskBody: question min_length=1, top_k ge=1 le=20,
\* min_score ge=0.0 le=1.0, history a list of ChatTurn
AskBodyValid(p) ==
    /\ Len(p.question) >= 1
    /\ p.top_k >= 1 /\ p.top_k <= 20
    /\ p.min_score >= 0 /\ p.min_score <= 10000
    /\ \A h \in 1..Len(p.history) : p.history[h].role \in Roles

\* POST /api/ask_stream with a body that fails validation: the framework
\* answers 422 and ask_rag_stream is not called
RejectAsk(p) ==
    /\ ~AskBodyValid(p)
    /\ Len(responses) < MaxRequests
    /\ responses' = Append(responses, [route |-> "ask", status |-> 422])
    /\ UNCHANGED <<service, dedupe, resolve, chunker, builder>>

\* Ask creating a conversation also when the body names one
Ask_AlwaysCreate(t, p) ==
    /\ pc[t] = "idle"
    /\ AskBodyValid(p)
    /\ IF p.chat_id = None THEN TRUE ELSE p.chat_id[1] \in conversations
    /\ LET q == Strip(p.question)
           rm == resolve_model(p.model)
           cid == next_conversation_id
       IN  /\ payload' = Upd(payload, t, Some(p))
           /\ question' = Upd(question, t, q)
           /\ provider' = Upd(provider, t, rm.provider)
           /\ model_name' = Upd(model_name, t, rm.model_name)
           /\ chat_id' = Upd(chat_id, t, cid)
           /\ conversations' = conversations \cup {cid}
           /\ next_conversation_id' =
                next_conversation_id + 1
           /\ messages' = Append(messages, UserRow(cid, q, t))
           /\ response_text' = Upd(response_text, t, <<>>)
           /\ StartCall(t, "classify",
                        <<[role |-> "user", content |-> classification_prompt(q)]>>)
    /\ pc' = Upd(pc, t, "classify")
    /\ UNCHANGED <<units, documents, intent, has_documents, gate, path,
                   full_response, retrieval_calls, events>>

\* POST /api/ask_stream with body p: steps 1-3 of handle_rag_query and the
\* start of the classifier's provider call (no suspension point in between)
Ask(t, p) ==
    /\ pc[t] = "idle"
    /\ AskBodyValid(p)
    /\ IF p.chat_id = None THEN TRUE ELSE p.chat_id[1] \in conversations
    /\ LET q == Strip(p.question)
           rm == resolve_model(p.model)
           cid == IF p.chat_id = None THEN next_conversation_id
                  ELSE p.chat_id[1]
       IN  /\ payload' = Upd(payload, t, Some(p))
           /\ question' = Upd(question, t, q)
           /\ provider' = Upd(provider, t, rm.provider)
           /\ model_name' = Upd(model_name, t, rm.model_name)
           /\ chat_id' = Upd(chat_id, t, cid)
           /\ conversations' = conversations \cup {cid}
           /\ next_conversation_id' =
                IF p.chat_id = None THEN next_conversation_id + 1
                ELSE next_conversation_id
           /\ messages' = Append(messages, UserRow(cid, q, t))
           /\ response_text' = Upd(response_text, t, <<>>)
           /\ StartCall(t, "classify",
                        <<[role |-> "user", content |-> classification_prompt(q)]>>)
    /\ pc' = Upd(pc, t, "classify")
    /\ UNCHANGED <<units, documents, intent, has_documents, gate, path,
                   full_response, retrieval_calls, events>>

\* async for delta in _stream_*(...): response_text += delta
ClassifyDelta(t, delta) ==
    /\ pc[t] = "classify"
    /\ Len(provider_out[t]) < MaxClsFrags
    /\ delta # <<>> \/ provider[t] = "ollama"
    /\ provider_out' = Upd(provider_out, t, Append(provider_out[t], delta))
    /\ response_text' = Upd(response_text, t, response_text[t] \o delta)
    /\ UNCHANGED <<units, shared, pc, request, intent, has_documents, gate, path,
                   llm_messages, provider_status, llm_calls, full_response,
                   retrieval_calls, events>>

\* the provider's stream ends: strip, lower, validate; the classifier is
\* at its return statement
ClassifyEnd(t) ==
    /\ pc[t] = "classify"
    /\ provider_status' = Upd(provider_status, t, "completed")
    /\ intent' = Upd(intent, t, ParseIntent(response_text[t]))
    /\ pc' = Upd(pc, t, "classified")
    /\ UNCHANGED <<units, shared, request, has_documents, gate, path, llm_messages,
                   provider_out, llm_calls, response_text, full_response,
                   retrieval_calls, events>>

\* ClassifyError without the except clause: the exception leaves the handler
ClassifyError_Propagates(t) ==
    /\ pc[t] = "classify"
    /\ provider_status' = Upd(provider_status, t, "failed")
    /\ pc' = Upd(pc, t, "failed")
    /\ UNCHANGED <<units, shared, request, intent, has_documents, gate, path,
                   llm_messages, provider_out, llm_calls, response_text,
                   full_response, retrieval_calls, events>>

\* the provider call raises, at its start or between two fragments:
\* except Exception: return 'factual'
ClassifyError(t) ==
    /\ pc[t] = "classify"
    /\ provider_status' = Upd(provider_status, t, "failed")
    /\ intent' = Upd(intent, t, Factual)
    /\ pc' = Upd(pc, t, "classified")
    /\ UNCHANGED <<units, shared, request, has_documents, gate, path, llm_messages,
                   provider_out, llm_calls, response_text, full_response,
                   retrieval_calls, events>>

\* _classify_question_intent returns to handle_rag_query: its frame and
\* the provider's stream are gone
ClassifyReturn(t) ==
    /\ pc[t] = "classified"
    /\ response_text' = Upd(response_text, t, <<>>)
    /\ provider_out' = Upd(provider_out, t, <<>>)
    /\ pc' = Upd(pc, t, "check_documents")
    /\ UNCHANGED <<units, shared, request, intent, has_documents, gate, path,
                   llm_messages, provider_status, llm_calls, full_response,
                   retrieval_calls, events>>

\* CheckDocuments with the empty-store test taken before the intent
CheckDocuments_StoreFirst(t) ==
    /\ pc[t] = "check_documents"
    /\ LET has == _has_any_documents(documents)
           is_greeting_or_help == intent[t] \in {Greeting, Help}
       IN  /\ has_documents' = Upd(has_documents, t, has)
           /\ IF ~has
              THEN /\ path' = Upd(path, t, "NO_DOCS")
                   /\ pc' = Upd(pc, t, "no_docs_meta")
              ELSE IF is_greeting_or_help
              THEN /\ path' = Upd(path, t, "GREETING")
                   /\ pc' = Upd(pc, t, "greeting_meta")
              ELSE /\ path' = path
                   /\ pc' = Upd(pc, t, "search")
    /\ UNCHANGED <<units, shared, request, intent, gate, llm, response_text,
                   full_response, retrieval_calls, events>>

\* steps 5-6: _has_any_documents() is read and the handler takes the
\* no-documents generator, the greeting generator, or goes on to retrieval
CheckDocuments(t) ==
    /\ pc[t] = "check_documents"
    /\ LET has == _has_any_documents(documents)
           is_greeting_or_help == intent[t] \in {Greeting, Help}
       IN  /\ has_documents' = Upd(has_documents, t, has)
           /\ IF ~has /\ ~is_greeting_or_help
              THEN /\ path' = Upd(path, t, "NO_DOCS")
                   /\ pc' = Upd(pc, t, "no_docs_meta")
              ELSE IF is_greeting_or_help
              THEN /\ path' = Upd(path, t, "GREETING")
                   /\ pc' = Upd(pc, t, "greeting_meta")
              ELSE /\ path' = path
                   /\ pc' = Upd(pc, t, "search")
    /\ UNCHANGED <<units, shared, request, intent, gate, llm, response_text,
                   full_response, retrieval_calls, events>>

\* steps 7-9: search_similar, the score filter with its fallback, and either
\* the not-found generator or sorting, citation filter, dedupe and context
Search(t) ==
    /\ pc[t] = "search"
    /\ \E rows \in search_similar(question[t], payload[t][1].top_k, documents) :
         LET strong == StrongChunks(rows, payload[t][1].min_score)
             sorted == SortedChunks(strong)
         IN  /\ chunks' = Upd(chunks, t, rows)
             /\ strong_chunks' = Upd(strong_chunks, t, strong)
             /\ IF strong = <<>>
                THEN /\ path' = Upd(path, t, "NOT_FOUND")
                     /\ pc' = Upd(pc, t, "not_found_meta")
                     /\ UNCHANGED <<sorted_chunks, sources, context>>
                ELSE /\ path' = Upd(path, t, "ANSWER")
                     /\ pc' = Upd(pc, t, "rag_meta")
                     /\ sorted_chunks' = Upd(sorted_chunks, t, sorted)
                     /\ sources' = Upd(sources, t,
                                       dedupe_sources(RelevantChunks(sorted)))
                     /\ context' = Upd(context, t, _build_context(sorted))
    /\ retrieval_calls' = Upd(retrieval_calls, t, retrieval_calls[t] + 1)
    /\ UNCHANGED <<units, shared, request, intent, has_documents, llm, response_text,
                   full_response, events>>

Emit(t, e) == events' = Upd(events, t, Append(events[t], e))

(* ---------------------- _stream_greeting_response --------------------- *)
\* yield meta with sources = []
StreamGreetingMeta(t) ==
    /\ pc[t] = "greeting_meta"
    /\ Emit(t, MetaEvent(<<>>))
    /\ pc' = Upd(pc, t, "greeting_call")
    /\ UNCHANGED <<units, shared, request, intent, has_documents, gate, path, llm,
                   response_text, full_response, retrieval_calls>>

\* StreamGreetingCall with the user turn of the answer path
StreamGreetingCall_WithContext(t) ==
    /\ pc[t] = "greeting_call"
    /\ StartCall(t, "generate",
                 BuildMessages(GreetingSystemPrompt, payload[t][1].history,
                               RagUserContent(question[t], context[t])))
    /\ full_response' = Upd(full_response, t, <<>>)
    /\ pc' = Upd(pc, t, "greeting_stream")
    /\ UNCHANGED <<units, shared, request, intent, has_documents, gate, path,
                   response_text, retrieval_calls, events>>

\* messages = system + history + question; the provider call begins
StreamGreetingCall(t) ==
    /\ pc[t] = "greeting_call"
    /\ StartCall(t, "generate",
                 BuildMessages(GreetingSystemPrompt, payload[t][1].history,
                               question[t]))
    /\ full_response' = Upd(full_response, t, <<>>)
    /\ pc' = Upd(pc, t, "greeting_stream")
    /\ UNCHANGED <<units, shared, request, intent, has_documents, gate, path,
                   response_text, retrieval_calls, events>>

\* full_response += delta; yield delta
StreamGreetingDelta(t, delta) ==
    /\ pc[t] = "greeting_stream"
    /\ Len(provider_out[t]) < MaxGenFrags
    /\ delta # <<>> \/ provider[t] = "ollama"
    /\ provider_out' = Upd(provider_out, t, Append(provider_out[t], delta))
    /\ full_response' = Upd(full_response, t, full_response[t] \o delta)
    /\ Emit(t, DeltaEvent(delta))
    /\ UNCHANGED <<units, shared, pc, request, intent, has_documents, gate, path,
                   llm_messages, provider_status, llm_calls, response_text,
                   retrieval_calls>>

\* the provider's stream ends: store_message(full_response), yield final
StreamGreetingFinal(t) ==
    /\ pc[t] = "greeting_stream"
    /\ provider_status' = Upd(provider_status, t, "completed")
    /\ LET row == AssistantRow(chat_id[t], full_response[t], provider[t],
                            model_name[t], <<>>, t)
       IN  /\ messages' = Append(messages, row)
           /\ Emit(t, FinalEvent(full_response[t], FALSE, <<>>, provider[t],
                                 model_name[t], chat_id[t],
                                 row.created_at))
    /\ pc' = Upd(pc, t, "greeting_done")
    /\ UNCHANGED <<units, documents, conversations, next_conversation_id, request,
                   intent, has_documents, gate, path, llm_messages,
                   provider_out, llm_calls, response_text, full_response,
                   retrieval_calls>>

\* yield done
StreamGreetingDone(t) ==
    /\ pc[t] = "greeting_done"
    /\ Emit(t, DoneEvent)
    /\ pc' = Upd(pc, t, "finishing")
    /\ UNCHANGED <<units, shared, request, intent, has_documents, gate, path, llm,
                   response_text, full_response, retrieval_calls>>

(* -------------------- _stream_no_documents_response ------------------- *)
\* yield meta with sources = []
StreamNoDocumentsMeta(t) ==
    /\ pc[t] = "no_docs_meta"
    /\ Emit(t, MetaEvent(<<>>))
    /\ pc' = Upd(pc, t, "no_docs_store")
    /\ UNCHANGED <<units, shared, request, intent, has_documents, gate, path, llm,
                   response_text, full_response, retrieval_calls>>

\* StreamNoDocumentsFinal without the store_message call
StreamNoDocumentsFinal_NoStore(t) ==
    /\ pc[t] = "no_docs_store"
    /\ Emit(t, FinalEvent(no_docs_message, FALSE, <<>>, provider[t],
                          model_name[t], chat_id[t], 0))
    /\ pc' = Upd(pc, t, "no_docs_done")
    /\ UNCHANGED <<units, shared, request, intent, has_documents, gate, path, llm,
                   response_text, full_response, retrieval_calls>>

\* store_message(no_docs_message), yield final
StreamNoDocumentsFinal(t) ==
    /\ pc[t] = "no_docs_store"
    /\ LET row == AssistantRow(chat_id[t], no_docs_message, provider[t],
                            model_name[t], <<>>, t)
       IN  /\ messages' = Append(messages, row)
           /\ Emit(t, FinalEvent(no_docs_message, FALSE, <<>>, provider[t],
                                 model_name[t], chat_id[t],
                                 row.created_at))
    /\ pc' = Upd(pc, t, "no_docs_done")
    /\ UNCHANGED <<units, documents, conversations, next_conversation_id, request,
                   intent, has_documents, gate, path, llm, response_text,
                   full_response, retrieval_calls>>

\* yield done
StreamNoDocumentsDone(t) ==
    /\ pc[t] = "no_docs_done"
    /\ Emit(t, DoneEvent)
    /\ pc' = Upd(pc, t, "finishing")
    /\ UNCHANGED <<units, shared, request, intent, has_documents, gate, path, llm,
                   response_text, full_response, retrieval_calls>>

(* ---------------------- _stream_not_found_response -------------------- *)
\* StreamNotFoundMeta without its yield: the stream starts at final
StreamNotFoundMeta_NoMeta(t) ==
    /\ pc[t] = "not_found_meta"
    /\ pc' = Upd(pc, t, "not_found_store")
    /\ UNCHANGED <<units, shared, request, intent, has_documents, gate, path, llm,
                   response_text, full_response, retrieval_calls, events>>

\* yield meta with sources = []
StreamNotFoundMeta(t) ==
    /\ pc[t] = "not_found_meta"
    /\ Emit(t, MetaEvent(<<>>))
    /\ pc' = Upd(pc, t, "not_found_store")
    /\ UNCHANGED <<units, shared, request, intent, has_documents, gate, path, llm,
                   response_text, full_response, retrieval_calls>>

\* StreamNotFoundFinal reporting the other canned message in its final event
StreamNotFoundFinal_OtherText(t) ==
    /\ pc[t] = "not_found_store"
    /\ LET row == AssistantRow(chat_id[t], no_info_message, provider[t],
                            model_name[t], <<>>, t)
       IN  /\ messages' = Append(messages, row)
           /\ Emit(t, FinalEvent(no_docs_message, FALSE, <<>>, provider[t],
                                 model_name[t], chat_id[t],
                                 row.created_at))
    /\ pc' = Upd(pc, t, "not_found_done")
    /\ UNCHANGED <<units, documents, conversations, next_conversation_id, request,
                   intent, has_documents, gate, path, llm, response_text,
                   full_response, retrieval_calls>>

\* store_message(no_info_message), yield final
StreamNotFoundFinal(t) ==
    /\ pc[t] = "not_found_store"
    /\ LET row == AssistantRow(chat_id[t], no_info_message, provider[t],
                            model_name[t], <<>>, t)
       IN  /\ messages' = Append(messages, row)
           /\ Emit(t, FinalEvent(no_info_message, FALSE, <<>>, provider[t],
                                 model_name[t], chat_id[t],
                                 row.created_at))
    /\ pc' = Upd(pc, t, "not_found_done")
    /\ UNCHANGED <<units, documents, conversations, next_conversation_id, request,
                   intent, has_documents, gate, path, llm, response_text,
                   full_response, retrieval_calls>>

\* yield done
StreamNotFoundDone(t) ==
    /\ pc[t] = "not_found_done"
    /\ Emit(t, DoneEvent)
    /\ pc' = Upd(pc, t, "finishing")
    /\ UNCHANGED <<units, shared, request, intent, has_documents, gate, path, llm,
                   response_text, full_response, retrieval_calls>>

(* ------------------------- _stream_rag_response ----------------------- *)
\* yield meta with the gated sources
StreamRagMeta(t) ==
    /\ pc[t] = "rag_meta"
    /\ Emit(t, MetaEvent(sources[t]))
    /\ pc' = Upd(pc, t, "rag_call")
    /\ UNCHANGED <<units, shared, request, intent, has_documents, gate, path, llm,
                   response_text, full_response, retrieval_calls>>

\* messages = system + history + (question with context); the call begins
StreamRagCall(t) ==
    /\ pc[t] = "rag_call"
    /\ StartCall(t, "generate",
                 BuildMessages(RagSystemPrompt, payload[t][1].history,
                               RagUserContent(question[t], context[t])))
    /\ full_response' = Upd(full_response, t, <<>>)
    /\ pc' = Upd(pc, t, "rag_stream")
    /\ UNCHANGED <<units, shared, request, intent, has_documents, gate, path,
                   response_text, retrieval_calls, events>>

\* StreamRagDelta accumulating into one buffer that every question shares
StreamRagDelta_SharedBuffer(t, delta) ==
    /\ pc[t] = "rag_stream"
    /\ Len(provider_out[t]) < MaxGenFrags
    /\ delta # <<>> \/ provider[t] = "ollama"
    /\ provider_out' = Upd(provider_out, t, Append(provider_out[t], delta))
    /\ full_response' = [u \in Tasks |-> full_response[u] \o delta]
    /\ Emit(t, DeltaEvent(delta))
    /\ UNCHANGED <<units, shared, pc, request, intent, has_documents, gate, path,
                   llm_messages, provider_status, llm_calls, response_text,
                   retrieval_calls>>

\* full_response += delta; yield delta
StreamRagDelta(t, delta) ==
    /\ pc[t] = "rag_stream"
    /\ Len(provider_out[t]) < MaxGenFrags
    /\ delta # <<>> \/ provider[t] = "ollama"
    /\ provider_out' = Upd(provider_out, t, Append(provider_out[t], delta))
    /\ full_response' = Upd(full_response, t, full_response[t] \o delta)
    /\ Emit(t, DeltaEvent(delta))
    /\ UNCHANGED <<units, shared, pc, request, intent, has_documents, gate, path,
                   llm_messages, provider_status, llm_calls, response_text,
                   retrieval_calls>>

\* the text _stream_rag_response stores and reports: full_response.strip()
RagFinalText(full) == Strip(full)

\* StreamRagFinal storing full_response as accumulated, not stripped
StreamRagFinal_StoreUnstripped(t) ==
    /\ pc[t] = "rag_stream"
    /\ provider_status' = Upd(provider_status, t, "completed")
    /\ LET row == AssistantRow(chat_id[t], full_response[t], provider[t],
                            model_name[t], sources[t], t)
       IN  /\ messages' = Append(messages, row)
           /\ Emit(t, FinalEvent(RagFinalText(full_response[t]), TRUE, sources[t], provider[t],
                                 model_name[t], chat_id[t],
                                 row.created_at))
    /\ pc' = Upd(pc, t, "rag_done")
    /\ UNCHANGED <<units, documents, conversations, next_conversation_id, request,
                   intent, has_documents, gate, path, llm_messages,
                   provider_out, llm_calls, response_text, full_response,
                   retrieval_calls>>

\* StreamRagFinal storing the assistant message without its sources
StreamRagFinal_StoreNoSources(t) ==
    /\ pc[t] = "rag_stream"
    /\ provider_status' = Upd(provider_status, t, "completed")
    /\ LET row == AssistantRow(chat_id[t], RagFinalText(full_response[t]), provider[t],
                            model_name[t], <<>>, t)
       IN  /\ messages' = Append(messages, row)
           /\ Emit(t, FinalEvent(RagFinalText(full_response[t]), TRUE, sources[t], provider[t],
                                 model_name[t], chat_id[t],
                                 row.created_at))
    /\ pc' = Upd(pc, t, "rag_done")
    /\ UNCHANGED <<units, documents, conversations, next_conversation_id, request,
                   intent, has_documents, gate, path, llm_messages,
                   provider_out, llm_calls, response_text, full_response,
                   retrieval_calls>>

\* the provider's stream ends: store_message(full_response.strip()),
\* yield final
StreamRagFinal(t) ==
    /\ pc[t] = "rag_stream"
    /\ provider_status' = Upd(provider_status, t, "completed")
    /\ LET row == AssistantRow(chat_id[t], RagFinalText(full_response[t]), provider[t],
                            model_name[t], sources[t], t)
       IN  /\ messages' = Append(messages, row)
           /\ Emit(t, FinalEvent(RagFinalText(full_response[t]), TRUE, sources[t], provider[t],
                                 model_name[t], chat_id[t],
                                 row.created_at))
    /\ pc' = Upd(pc, t, "rag_done")
    /\ UNCHANGED <<units, documents, conversations, next_conversation_id, request,
                   intent, has_documents, gate, path, llm_messages,
                   provider_out, llm_calls, response_text, full_response,
                   retrieval_calls>>

\* yield done
StreamRagDone(t) ==
    /\ pc[t] = "rag_done"
    /\ Emit(t, DoneEvent)
    /\ pc' = Upd(pc, t, "finishing")
    /\ UNCHANGED <<units, shared, request, intent, has_documents, gate, path, llm,
                   response_text, full_response, retrieval_calls>>

(* ------------------------ ends of the handling ------------------------ *)
\* the generator is resumed after done and returns: the stream is complete
Return(t) ==
    /\ pc[t] = "finishing"
    /\ pc' = Upd(pc, t, "returned")
    /\ UNCHANGED <<units, shared, request, intent, has_documents, gate, path, llm,
                   response_text, full_response, retrieval_calls, events>>

\* GenerationError with a handler that stores what has been accumulated
GenerationError_StorePartial(t) ==
    /\ pc[t] \in {"greeting_stream", "rag_stream"}
    /\ provider_status' = Upd(provider_status, t, "failed")
    /\ messages' = Append(messages,
                          AssistantRow(chat_id[t], full_response[t], provider[t],
                                       model_name[t], sources[t], t))
    /\ pc' = Upd(pc, t, "failed")
    /\ UNCHANGED <<units, documents, conversations, next_conversation_id,
                   request, intent, has_documents, gate, path,
                   llm_messages, provider_out, llm_calls, response_text,
                   full_response, retrieval_calls, events>>

\* the generation call raises, at its start or between two fragments: no
\* handler on the way out, the exception ends the generator
GenerationError(t) ==
    /\ pc[t] \in {"greeting_stream", "rag_stream"}
    /\ provider_status' = Upd(provider_status, t, "failed")
    /\ pc' = Upd(pc, t, "failed")
    /\ UNCHANGED <<units, shared, request, intent, has_documents, gate, path,
                   llm_messages, provider_out, llm_calls, response_text,
                   full_response, retrieval_calls, events>>

\* store_message for the assistant message raises: nothing is inserted and
\* the exception ends the generator
StoreError(t) ==
    /\ pc[t] \in {"greeting_stream", "rag_stream", "no_docs_store",
                  "not_found_store"}
    /\ provider_status' =
         IF pc[t] \in {"greeting_stream", "rag_stream"}
         THEN Upd(provider_status, t, "completed") ELSE provider_status
    /\ pc' = Upd(pc, t, "failed")
    /\ UNCHANGED <<units, shared, request, intent, has_documents, gate, path,
                   llm_messages, provider_out, llm_calls, response_text,
                   full_response, retrieval_calls, events>>

\* the client goes away while the generator is suspended at a yield: the
\* generator is closed there and runs no further
ClientDisconnect(t) ==
    /\ pc[t] \in {"greeting_call", "greeting_stream", "greeting_done",
                  "no_docs_store", "no_docs_done", "not_found_store",
                  "not_found_done", "rag_call", "rag_stream", "rag_done"}
    /\ events[t] # <<>>
    /\ events[t][Len(events[t])].type \in {"meta", "delta", "final"}
    /\ pc[t] \in {"greeting_stream", "rag_stream"} =>
           events[t][Len(events[t])].type = "delta"
    /\ pc' = Upd(pc, t, "closed")
    /\ UNCHANGED <<units, shared, request, intent, has_documents, gate, path, llm,
                   response_text, full_response, retrieval_calls, events>>

(* --------------------------- requests, inputs ------------------------- *)
Questions == {<<"a">>, <<" ", "b", " ">>}

PriorTurns == <<[role |-> "user", content |-> <<"q">>],
                [role |-> "assistant", content |-> <<"r">>]>>

OllamaModelString == <<"o","l","l","a","m","a",":","q",":","7","b">>

\* the bodies the full pipeline is run on
Payloads ==
    [question : Questions, history : {<<>>, PriorTurns}, top_k : {2},
     min_score : {DefaultMinScore, 5000},
     model : {None, Some(OllamaModelString)}, chat_id : {None, Some(1)}]

\* what a provider streams when asked to classify, in the full pipeline
ClassifierFragments == {Greeting, Help, Factual, <<" ">>, <<"x">>, <<>>}

\* what a provider streams when asked to generate
GeneratorFragments == {<<"a">>, <<" ">>, <<>>}

\* the bodies and fragments the classifier alone is run on
ClassifierPayloads ==
    [question : {<<"a">>}, history : {<<>>}, top_k : {2},
     min_score : {DefaultMinScore},
     model : {None, Some(OllamaModelString)}, chat_id : {None}]

RichClassifierFragments ==
    {Greeting, Help, Factual, <<"H","e","l","p">>, <<"G","R","E","E","T","I","N","G">>, <<"F","a","c","t","u","a","l">>,
     <<"h","e","l">>, <<"p">>, <<"g","r","e","e","t">>, <<"i","n","g">>, <<"f","u","l">>, <<"!">>, <<" ">>, <<"\n">>, <<>>}

\* the bodies the retrieval gate is run on: every top_k up to the bound,
\* thresholds below, between and above the stored scores
GatePayloads ==
    [question : Questions, history : {<<>>}, top_k : 1..MaxTopK,
     min_score : {0, DefaultMinScore, CitationThreshold, 5000, 10000},
     model : {None}, chat_id : {None}]

(* --------------------------- specifications --------------------------- *)
\* one question through the whole pipeline, documents coming and going
Next ==
    \/ \E d \in Docs : UploadDocument(d)
    \/ \E d \in Docs : DeleteDocument(d)
    \/ \E p \in Payloads : Ask(1, p)
    \/ \E f \in ClassifierFragments : ClassifyDelta(1, f)
    \/ ClassifyEnd(1)
    \/ ClassifyError(1)
    \/ ClassifyReturn(1)
    \/ CheckDocuments(1)
    \/ Search(1)
    \/ StreamGreetingMeta(1)
    \/ StreamGreetingCall(1)
    \/ \E f \in GeneratorFragments : StreamGreetingDelta(1, f)
    \/ StreamGreetingFinal(1)
    \/ StreamGreetingDone(1)
    \/ StreamNoDocumentsMeta(1)
    \/ StreamNoDocumentsFinal(1)
    \/ StreamNoDocumentsDone(1)
    \/ StreamNotFoundMeta(1)
    \/ StreamNotFoundFinal(1)
    \/ StreamNotFoundDone(1)
    \/ StreamRagMeta(1)
    \/ StreamRagCall(1)
    \/ \E f \in GeneratorFragments : StreamRagDelta(1, f)
    \/ StreamRagFinal(1)
    \/ StreamRagDone(1)
    \/ Return(1)
    \/ GenerationError(1)
    \/ StoreError(1)
    \/ ClientDisconnect(1)

Spec == Init /\ [][Next]_vars

\* the classifier on every output a provider can stream to it
NextClassify ==
    \/ \E p \in ClassifierPayloads : Ask(1, p)
    \/ \E f \in RichClassifierFragments : ClassifyDelta(1, f)
    \/ ClassifyEnd(1)
    \/ ClassifyError(1)
    \/ ClassifyReturn(1)

SpecClassify == Init /\ [][NextClassify]_vars

\* a factual question up to the start of its generation call
NextGate ==
    \/ \E d \in Docs : UploadDocument(d)
    \/ \E d \in Docs : DeleteDocument(d)
    \/ \E p \in GatePayloads : Ask(1, p)
    \/ ClassifyEnd(1)
    \/ ClassifyError(1)
    \/ ClassifyReturn(1)
    \/ CheckDocuments(1)
    \/ Search(1)
    \/ StreamRagMeta(1)
    \/ StreamRagCall(1)

SpecGate == Init /\ [][NextGate]_vars

(* ------------------------ questions in parallel ----------------------- *)
\* the requests being served at the same time
Askers == {1, 2}

\* the bodies of the parallel questions: the same or different questions,
\* on a new conversation each or on the one conversation that exists
ConcurrentPayloads ==
    [question : Questions, history : {<<>>}, top_k : {2},
     min_score : {DefaultMinScore}, model : {None}, chat_id : {None, Some(1)}]

\* what the provider streams to each request's classification call
ConcurrentClassifierFragments == {Greeting}

\* what the provider streams to each request's generation call: the
\* fragments of one request are not those of the other
ConcurrentGeneratorFragments(t) == IF t = 1 THEN {<<"m">>} ELSE {<<"n", " ">>}

\* two questions through the pipeline, interleaved at every step
NextConcurrent ==
    \/ UploadDocument("d1")
    \/ \E t \in Askers : \E p \in ConcurrentPayloads : Ask(t, p)
    \/ \E t \in Askers : \E f \in ConcurrentClassifierFragments :
           ClassifyDelta(t, f)
    \/ \E t \in Askers : ClassifyEnd(t)
    \/ \E t \in Askers : ClassifyReturn(t)
    \/ \E t \in Askers : CheckDocuments(t)
    \/ \E t \in Askers : Search(t)
    \/ \E t \in Askers : StreamGreetingMeta(t)
    \/ \E t \in Askers : StreamGreetingCall(t)
    \/ \E t \in Askers : \E f \in ConcurrentGeneratorFragments(t) :
           StreamGreetingDelta(t, f)
    \/ \E t \in Askers : StreamGreetingFinal(t)
    \/ \E t \in Askers : StreamGreetingDone(t)
    \/ \E t \in Askers : StreamNoDocumentsMeta(t)
    \/ \E t \in Askers : StreamNoDocumentsFinal(t)
    \/ \E t \in Askers : StreamNoDocumentsDone(t)
    \/ \E t \in Askers : StreamRagMeta(t)
    \/ \E t \in Askers : StreamRagCall(t)
    \/ \E t \in Askers : \E f \in ConcurrentGeneratorFragments(t) :
           StreamRagDelta(t, f)
    \/ \E t \in Askers : StreamRagFinal(t)
    \/ \E t \in Askers : StreamRagDone(t)
    \/ \E t \in Askers : Return(t)

SpecConcurrent == Init /\ [][NextConcurrent]_vars

(* ------------------------ dedupe_sources alone ------------------------ *)
\* a content longer than the preview, with a blank where the preview is cut
LongContent ==
    [p \in 1..(PreviewLen + 1) |-> IF p = PreviewLen THEN " " ELSE "z"]

\* the chunks the lists are made of: two files, scores that differ, agree,
\* and agree only after rounding, a short and a long content
DedupeChunks ==
    [filename : {"a.txt", "b.txt"}, score : {3000, 4512, 4514},
     content : {<<" ", "y">>, LongContent}]

\* every list of at most MaxDedupeChunks of them
DedupeInputs ==
    UNION {[1..n -> DedupeChunks] : n \in 0..MaxDedupeChunks}

InitDedupe ==
    /\ ServiceInit /\ ResolveIdle /\ ChunkerIdle /\ RoutesIdle /\ BuilderIdle
    /\ dedupe_chunks \in DedupeInputs
    /\ dedupe_returned = <<>>

\* sources = dedupe_sources(chunks)
Dedupe ==
    /\ dedupe_returned = <<>>
    /\ dedupe_returned' = <<dedupe_sources(dedupe_chunks)>>
    /\ UNCHANGED <<service, dedupe_chunks, resolve, chunker, routes, builder>>

\* dedupe_sources(sources): the function applied to its own result
DedupeAgain ==
    /\ Len(dedupe_returned) = 1
    /\ dedupe_returned' =
         Append(dedupe_returned, dedupe_sources(dedupe_returned[1]))
    /\ UNCHANGED <<service, dedupe_chunks, resolve, chunker, routes, builder>>

NextDedupe ==
    \/ Dedupe
    \/ DedupeAgain

SpecDedupe == InitDedupe /\ [][NextDedupe]_vars

(* ------------------------- simple_chunks alone ------------------------ *)
\* every text of at most MaxShortText characters over a letter, a space and
\* a line break
ShortTexts ==
    UNION {[1..n -> {"a", " ", "\n"}] : n \in 0..MaxShortText}

\* a text of n characters: letters, the separator sep at index at, and tail
\* line breaks at its end
LongText(n, sep, at, tail) ==
    [p \in 1..n |->
        IF p > at /\ p <= at + Len(sep) THEN sep[p - at]
        ELSE IF p > n - tail THEN "\n"
        ELSE "a"]

Separators ==
    {<<>>, <<" ">>, <<" ", "\t">>, <<"\n">>, <<"\n", "\n">>, <<".", " ">>}

\* texts longer than target_chars: short of, at and past one more overlap,
\* and past two targets; one separator early, in the middle, or late in the
\* first target_chars characters; with and without blank lines at the end
LongTexts ==
    {LongText(n, sep, at, tail) :
        n \in {1201, 1349, 1351, 1500}, sep \in Separators,
        at \in {1, 500, 1100, 1197}, tail \in {0, 500}}
    \cup {LongText(2600, sep, at, tail) :
            sep \in {<<>>, <<" ">>, <<" ", "\t">>, <<".", " ">>},
            at \in {1, 500, 1100, 1197}, tail \in {0, 500}}
    \cup {LongText(2600, <<"\n">>, 1100, 0)}

InitChunks ==
    /\ ServiceInit /\ DedupeIdle /\ ResolveIdle /\ RoutesIdle /\ BuilderIdle
    /\ doc_text \in ShortTexts \cup LongTexts
    /\ sc_pc = "start"
    /\ sc_text = <<>>
    /\ sc_i = 0
    /\ sc_slices = <<>>
    /\ parts = <<>>

\* lines 75-86: the text is normalized; a text of at most target_chars
\* characters is yielded whole
SimpleChunksBegin ==
    /\ sc_pc = "start"
    /\ LET text == NormalizeLines(doc_text)
           n == Len(text)
       IN  /\ sc_text' = text
           /\ sc_i' = 0
           /\ IF n <= target_chars
              THEN /\ parts' = <<text>>
                   /\ sc_slices' = <<[start |-> 0, cut |-> n, site |-> "short"]>>
                   /\ sc_pc' = "done"
              ELSE /\ parts' = <<>>
                   /\ sc_slices' = <<>>
                   /\ sc_pc' = "loop"
    /\ UNCHANGED <<service, dedupe, resolve, routes, builder, doc_text>>

\* one iteration near the end of the text: yield text[i:].strip(); break
SimpleChunksRest ==
    /\ sc_pc = "loop"
    /\ LET n == Len(sc_text)
           j == IF sc_i + target_chars <= n THEN sc_i + target_chars ELSE n
       IN  /\ j >= n - overlap
           /\ parts' = Append(parts, Strip(Slice(sc_text, sc_i, n)))
           /\ sc_slices' =
                Append(sc_slices, [start |-> sc_i, cut |-> n, site |-> "rest"])
    /\ sc_pc' = "done"
    /\ UNCHANGED <<service, dedupe, resolve, routes, builder, doc_text, sc_text, sc_i>>

\* one iteration elsewhere: cut at k, yield text[i:k].strip() unless it is
\* empty, move i; the loop ends when i >= n
SimpleChunksSlice ==
    /\ sc_pc = "loop"
    /\ LET n == Len(sc_text)
           j == IF sc_i + target_chars <= n THEN sc_i + target_chars ELSE n
           k == Cut(sc_text, sc_i, j)
           chunk == Strip(Slice(sc_text, sc_i, k))
           next_i == NextStart(k, sc_i)
       IN  /\ j < n - overlap
           /\ parts' = IF chunk # <<>> THEN Append(parts, chunk) ELSE parts
           /\ sc_slices' =
                Append(sc_slices, [start |-> sc_i, cut |-> k, site |-> "slice"])
           /\ sc_i' = next_i
           /\ sc_pc' = IF next_i >= n THEN "done" ELSE "loop"
    /\ UNCHANGED <<service, dedupe, resolve, routes, builder, doc_text, sc_text>>

NextChunks ==
    \/ SimpleChunksBegin
    \/ SimpleChunksRest
    \/ SimpleChunksSlice

SpecChunks == InitChunks /\ [][NextChunks]_vars

(* ------------------------- resolve_model alone ------------------------ *)
\* the pieces model identifiers are put together from
ModelPieces == {OpenAIPrefix, OllamaPrefix, <<"x">>, <<":">>, <<"o">>}

\* no identifier, and every concatenation of at most MaxModelPieces pieces
ModelStrings ==
    {None} \cup
    {Some(Concat(ps)) :
        ps \in UNION {[1..n -> ModelPieces] : n \in 0..MaxModelPieces}}

InitResolve ==
    /\ ServiceInit /\ DedupeIdle /\ ChunkerIdle /\ RoutesIdle /\ BuilderIdle
    /\ model_string \in ModelStrings
    /\ resolved = None

\* provider, model_name = resolve_model(model_string)
ResolveModel ==
    /\ resolved = None
    /\ resolved' = Some(resolve_model(model_string))
    /\ UNCHANGED <<service, dedupe, chunker, routes, builder, model_string>>

NextResolve ==
    \/ ResolveModel

SpecResolve == InitResolve /\ [][NextResolve]_vars

(* ------------------------ the conversation routes --------------------- *)
\* the conversation ids requests name: one that exists, two that never did
ConversationIds == {1, 2, 3}

\* what the sources column of a row reads back as: NULL and whatever tests
\* false give None; a stored empty list reads as [] when the column holds
\* the JSON text and as None when the driver hands back the parsed list
ReadSources(stored) ==
    IF stored = None THEN {None}
    ELSE IF stored[1].json = <<>> THEN {Some(<<>>), None}
    ELSE {Some(stored[1].json)}

\* one row as get_conversation_by_id serializes it, sources read as src
SerializedRow(row, src) ==
    [role |-> row.role, content |-> row.content,
     created_at |-> IsoFormat(row.created_at),
     model_provider |-> row.model_provider, model_name |-> row.model_name,
     sources |-> src]

RECURSIVE SerializedRows(_)
SerializedRows(rows) ==
    IF rows = <<>> THEN {<<>>}
    ELSE {<<SerializedRow(Head(rows), src)>> \o rest :
            src \in ReadSources(Head(rows).sources),
            rest \in SerializedRows(Tail(rows))}

\* the messages of conversation cid in the order of created_at, in each
\* form get_conversation_by_id can serialize them to
SerializedMessages(cid) ==
    SerializedRows(SelectSeq(messages, LAMBDA m : m.conversation_id = cid))

\* a route has answered; existed records whether the id was in the table
Respond(route, cid, status, body) ==
    responses' = Append(responses,
                        [route |-> route, conversation_id |-> cid,
                         existed |-> cid \in conversations,
                         status |-> status, body |-> body])

\* GET /api/conversations/{cid}: 404 from the ValueError of
\* get_conversation_by_id, else the conversation with its messages
GetConversation(cid) ==
    /\ Len(responses) < MaxRequests
    /\ IF cid \notin conversations
       THEN Respond("get", cid, 404, None)
       ELSE \E ms \in SerializedMessages(cid) :
               Respond("get", cid, 200,
                       Some([conversation_id |-> cid, messages |-> ms]))
    /\ UNCHANGED <<service, dedupe, resolve, chunker, builder>>

\* the rows left when conversation cid goes: its messages go with it
MessagesWithout(cid) == SelectSeq(messages, LAMBDA m : m.conversation_id # cid)

\* DELETE /api/conversations/{cid}: DELETE FROM conversations WHERE id = cid,
\* then {"ok": true} whether or not a row was deleted
DeleteConversation(cid) ==
    /\ Len(responses) < MaxRequests
    /\ conversations' = conversations \ {cid}
    /\ messages' = MessagesWithout(cid)
    /\ Respond("delete", cid, 200, Some([ok |-> TRUE]))
    /\ UNCHANGED <<documents, next_conversation_id, pc, request, intent,
                   has_documents, gate, path, llm, response_text,
                   full_response, retrieval_calls, events,
                   dedupe, resolve, chunker, builder>>

NextConversations ==
    \/ \E cid \in ConversationIds : GetConversation(cid)
    \/ \E cid \in ConversationIds : DeleteConversation(cid)

SpecConversations == Init /\ [][NextConversations]_vars

(* ------------------------- request validation ------------------------- *)
\* bodies as clients can send them: questions empty, blank and with text,
\* top_k and min_score at and just outside their limits
RawBodies ==
    [question : {<<>>, <<" ">>, <<"a">>, <<" ", "b", " ">>},
     history : {<<>>}, top_k : {0, 1, 20, 21},
     min_score : {-1, 0, 10000, 10001},
     model : {None}, chat_id : {None}]

\* requests good and bad, up to the classifier's return
NextValidate ==
    \/ \E p \in RawBodies : RejectAsk(p)
    \/ \E p \in RawBodies : Ask(1, p)
    \/ \E f \in ClassifierFragments : ClassifyDelta(1, f)
    \/ ClassifyEnd(1)
    \/ ClassifyError(1)
    \/ ClassifyReturn(1)

SpecValidate == Init /\ [][NextValidate]_vars

(* ------------------------- _build_context alone ----------------------- *)
\* a content of n characters
LetterContent(n) == [p \in 1..n |-> "c"]

\* contents empty, short, looking like a citation marker, of exactly the
\* limit and one character over it
ContextContents ==
    {<<>>, <<"x">>, <<"[", "1", "]", " ">>,
     LetterContent(ContextCharLimit), LetterContent(ContextCharLimit + 1)}

\* every list of at most MaxContextRows chunks, and one list long enough for
\* markers of two digits
ContextInputs ==
    UNION {[1..n -> [content : ContextContents]] : n \in 0..MaxContextRows}
    \cup {[k \in 1..12 |-> [content |-> <<"x">>]]}

InitContext ==
    /\ ServiceInit /\ DedupeIdle /\ ResolveIdle /\ ChunkerIdle /\ RoutesIdle
    /\ context_rows \in ContextInputs
    /\ context_built = <<>>

\* context = _build_context(chunks)
BuildContext ==
    /\ context_built = <<>>
    /\ context_built' = <<_build_context(context_rows)>>
    /\ UNCHANGED <<service, dedupe, resolve, chunker, routes, context_rows>>

\* _build_context(chunks) once more on the same list
BuildContextAgain ==
    /\ Len(context_built) = 1
    /\ context_built' = Append(context_built, _build_context(context_rows))
    /\ UNCHANGED <<service, dedupe, resolve, chunker, routes, context_rows>>

NextContext ==
    \/ BuildContext
    \/ BuildContextAgain

SpecContext == InitContext /\ [][NextContext]_vars

(* ======================= properties of the pipeline =================== *)
EventTypes(t) == [i \in 1..Len(events[t]) |-> events[t][i].type]

\* the texts of the delta events of the task's stream, in emission order
DeltaTexts(t) ==
    LET ds == SelectSeq(events[t], LAMBDA e : e.type = "delta")
    IN  [i \in 1..Len(ds) |-> ds[i].text]

FinalEvents(t) == SelectSeq(events[t], LAMBDA e : e.type = "final")

\* the handler ran to its end: the generator returned after done
Completed(t) == pc[t] = "returned"

\* the rows the task's question has inserted
RowsBy(t, role) ==
    {i \in 1..Len(messages) : messages[i].by = t /\ messages[i].role = role}

\* types is a prefix of: meta, delta*, final, done
IsStreamPrefix(types) ==
    /\ \A i \in 1..Len(types) : (types[i] = "meta") <=> (i = 1)
    /\ \A i \in 1..Len(types) : \A j \in 1..Len(types) :
          (i < j /\ types[i] = "final") => types[j] = "done"
    /\ \A i \in 1..Len(types) : types[i] = "done" =>
          (i = Len(types) /\ i > 1 /\ types[i - 1] = "final")

\* types is exactly: meta, delta*, final, done
IsWholeStream(types) ==
    /\ Len(types) >= 3
    /\ types[1] = "meta"
    /\ \A i \in 2..(Len(types) - 2) : types[i] = "delta"
    /\ types[Len(types) - 1] = "final"
    /\ types[Len(types)] = "done"

\* C1: on each of the four paths the stream is one meta first (also with
\* no sources), then deltas, then one final after all deltas, then one done
\* last: what has been emitted is at every moment a prefix of that shape,
\* and it is the whole shape once the handler has run to its end.
C1_EventShape ==
    \A t \in Tasks :
        /\ IsStreamPrefix(EventTypes(t))
        /\ events[t] # <<>> => path[t] # "none"
        /\ pc[t] \in {"finishing", "returned"} =>
              /\ path[t] \in {"GREETING", "NO_DOCS", "NOT_FOUND", "ANSWER"}
              /\ IsWholeStream(EventTypes(t))

C1_Witness ==
    /\ Completed(1)
    /\ path[1] = "ANSWER"
    /\ events[1][1] = MetaEvent(<<>>)
    /\ Len(DeltaTexts(1)) = MaxGenFrags

\* C2: every stream that has carried an event ends with done, whether the
\* handler returned or an exception of the provider or of the store ended it.
C2_DoneEndsEveryStream ==
    \A t \in Tasks :
        (pc[t] \in {"returned", "failed"} /\ events[t] # <<>>) =>
            events[t][Len(events[t])].type = "done"

\* C3: on the greeting and the answer path the final event's text is the
\* concatenation of the delta texts in emission order.
C3_FinalTextIsDeltaConcat ==
    \A t \in Tasks :
        (path[t] \in {"GREETING", "ANSWER"} /\ FinalEvents(t) # <<>>) =>
            FinalEvents(t)[1].text = Concat(DeltaTexts(t))

PathPcs(p) ==
    CASE p = "GREETING" -> {"greeting_meta", "greeting_call", "greeting_stream",
                            "greeting_done"}
      [] p = "NO_DOCS" -> {"no_docs_meta", "no_docs_store", "no_docs_done"}
      [] p = "NOT_FOUND" -> {"not_found_meta", "not_found_store",
                             "not_found_done"}
      [] p = "ANSWER" -> {"rag_meta", "rag_call", "rag_stream", "rag_done"}
      [] OTHER -> {"idle", "classify", "classified", "check_documents",
                   "search"}

EndPcs == {"finishing", "returned", "failed", "closed"}

\* the path the rule of the claim assigns
RulePath(t) ==
    IF intent[t] \in {Greeting, Help} THEN "GREETING"
    ELSE IF ~has_documents[t] THEN "NO_DOCS"
    ELSE IF chunks[t] = <<>> THEN "NOT_FOUND"
    ELSE "ANSWER"

\* what only the answer path does to a stream: grounded final, sources
PathOfFinal(e) ==
    IF e.grounded THEN {"ANSWER"}
    ELSE IF e.text = no_docs_message THEN {"NO_DOCS", "GREETING"}
    ELSE IF e.text = no_info_message THEN {"NOT_FOUND", "GREETING"}
    ELSE {"GREETING"}

\* C4: one path per question, chosen by: greeting or help -> GREETING (with
\* or without documents); else empty store -> NO_DOCS; else no candidates ->
\* NOT_FOUND; else ANSWER.  A path once taken is kept: the handler stays in
\* that path's generator and every event is one of that path.
C4_PathState ==
    \A t \in Tasks :
        /\ path[t] # "none" =>
              /\ path[t] = RulePath(t)
              /\ pc[t] \in PathPcs(path[t]) \cup EndPcs
              /\ path[t] \in {"GREETING", "NO_DOCS"} => retrieval_calls[t] = 0
              /\ path[t] \in {"NO_DOCS", "NOT_FOUND"} => DeltaTexts(t) = <<>>
              /\ \A i \in 1..Len(FinalEvents(t)) :
                    path[t] \in PathOfFinal(FinalEvents(t)[i])
              /\ path[t] # "ANSWER" => events[t] = <<>> \/
                                        events[t][1].sources = <<>>
        /\ path[t] = "none" => (events[t] = <<>> /\ pc[t] \in PathPcs("none"))

C4_OnePath ==
    /\ [](C4_PathState)
    /\ [][\A t \in Tasks : path[t] # "none" => path'[t] = path[t]]_vars

C4_Witness ==
    /\ Completed(1)
    /\ path[1] = "GREETING"
    /\ ~has_documents[1]
    /\ intent[1] = Help

\* C5: a question whose handling has run to its end has appended exactly one
\* user message and exactly one assistant message to its conversation, the
\* user message first; at no moment has it appended two of either role, and
\* from its first step on it has appended its user message.
C5_OneUserOneAssistant ==
    \A t \in Tasks :
        /\ Cardinality(RowsBy(t, "user")) = (IF pc[t] = "idle" THEN 0 ELSE 1)
        /\ Cardinality(RowsBy(t, "assistant")) <= 1
        /\ \A i \in RowsBy(t, "user") \cup RowsBy(t, "assistant") :
              messages[i].conversation_id = chat_id[t]
        /\ \A i \in RowsBy(t, "user") : \A j \in RowsBy(t, "assistant") : i < j
        /\ pc[t] \in {"finishing", "returned"} =>
              Cardinality(RowsBy(t, "assistant")) = 1

C5_Witness ==
    /\ Completed(1)
    /\ path[1] = "NOT_FOUND"
    /\ chat_id[1] = 1
    /\ Len(messages) = 4

LastCall(t) == llm_calls[t][Len(llm_calls[t])]

\* C6: the classifier returns greeting, help or factual and never raises:
\* a provider call that fails, at its start or between two fragments, gives
\* factual, and the handler goes on to the document check; a handling that
\* fails does so past the classifier, inside a response generator.
C6_ClassifierState ==
    \A t \in Tasks :
        /\ pc[t] = "classified" =>
              /\ intent[t] \in IntentTokens
              /\ provider_status[t] = "failed" => intent[t] = Factual
        /\ pc[t] \notin {"idle", "classify"} => intent[t] \in IntentTokens
        /\ pc[t] = "failed" => path[t] # "none"

C6_ClassifierNeverRaises ==
    /\ [](C6_ClassifierState)
    /\ [][\A t \in Tasks :
            /\ (pc[t] = "classify" /\ pc'[t] # "classify") =>
                   pc'[t] = "classified"
            /\ (pc[t] = "classified" /\ pc'[t] # "classified") =>
                   pc'[t] = "check_documents"]_vars

C6_Witness ==
    /\ pc[1] = "classified"
    /\ provider_status[1] = "failed"
    /\ provider_out[1] = <<Greeting>>
    /\ intent[1] = Factual

IsBlank(s) == \A i \in 1..Len(s) : s[i] \in Whitespace

\* out is the token tok between two runs of whitespace, in any letter case
IsToken(out, tok) ==
    \E i \in 0..Len(out) :
        /\ i + Len(tok) <= Len(out)
        /\ IsBlank(SubSeq(out, 1, i))
        /\ Lower(SubSeq(out, i + 1, i + Len(tok))) = tok
        /\ IsBlank(SubSeq(out, i + Len(tok) + 1, Len(out)))

\* C7: when the provider call succeeds the result depends on the whole
\* output only: it is the token that the output, trimmed and lowercased,
\* equals exactly, and factual for every other output.
C7_ClassifierParsesWholeOutput ==
    \A t \in Tasks :
        (pc[t] = "classified" /\ provider_status[t] = "completed") =>
            LET out == Concat(provider_out[t])
            IN  /\ \A tok \in IntentTokens :
                      IsToken(out, tok) => intent[t] = tok
                /\ (\A tok \in IntentTokens : ~IsToken(out, tok)) =>
                      intent[t] = Factual

C7_Witness ==
    /\ pc[1] = "classified"
    /\ provider_status[1] = "completed"
    /\ Len(provider_out[1]) = 2
    /\ Concat(provider_out[1]) \notin IntentTokens
    /\ intent[1] = Greeting

Ids(rows) == {rows[i].id : i \in 1..Len(rows)}

MinScore(t) == payload[t][1].min_score

\* the gate has run for the task
Gated(t) == path[t] \in {"NOT_FOUND", "ANSWER"}

\* C8: no raw candidate -> not found; candidates but none at or above
\* min_score -> exactly the two highest-ranked raw candidates (all of them if
\* fewer); otherwise exactly the candidates at or above min_score.
C8_GateSelection ==
    \A t \in Tasks :
        Gated(t) =>
            LET raw == chunks[t]
                used == strong_chunks[t]
                above == {i \in 1..Len(raw) : raw[i].score >= MinScore(t)}
            IN  /\ (raw = <<>>) <=> (path[t] = "NOT_FOUND")
                /\ (raw # <<>> /\ above = {}) =>
                      /\ Len(used) = (IF Len(raw) < 2 THEN Len(raw) ELSE 2)
                      /\ \A i \in 1..Len(used) : used[i] = raw[i]
                      /\ \A i \in 1..Len(raw) : \A j \in 1..Len(used) :
                            raw[i].id \notin Ids(used) =>
                                raw[i].score <= used[j].score
                /\ above # {} =>
                      /\ Len(used) = Cardinality(above)
                      /\ Ids(used) = {raw[i].id : i \in above}

C8_Witness ==
    /\ path[1] = "ANSWER"
    /\ Len(chunks[1]) > 2
    /\ \A i \in 1..Len(chunks[1]) : chunks[1][i].score < MinScore(1)
    /\ strong_chunks[1] = SubSeq(chunks[1], 1, 2)

\* C9: on the answer path the context chunks are the best-scoring members
\* of the strong or fallback set, best first, and never more than 5:
\* min(5, size of the set) of them, none excluded scoring higher than one
\* included.
C9_ContextIsTopFive ==
    \A t \in Tasks :
        path[t] = "ANSWER" =>
            LET set == strong_chunks[t]
                ctx == sorted_chunks[t]
            IN  /\ payload[t][1].top_k \in 1..20
                /\ Len(ctx) = (IF Len(set) < 5 THEN Len(set) ELSE 5)
                /\ Ids(ctx) \subseteq Ids(set)
                /\ Cardinality(Ids(ctx)) = Len(ctx)
                /\ \A i \in 1..Len(ctx) : \E j \in 1..Len(set) : ctx[i] = set[j]
                /\ \A i \in 1..Len(ctx) : \A j \in 1..Len(ctx) :
                      i < j => ctx[i].score >= ctx[j].score
                /\ \A j \in 1..Len(set) : \A i \in 1..Len(ctx) :
                      set[j].id \notin Ids(ctx) => set[j].score <= ctx[i].score

C9_Witness ==
    /\ path[1] = "ANSWER"
    /\ Len(strong_chunks[1]) > 5
    /\ Len(sorted_chunks[1]) = 5
    /\ payload[1][1].top_k = MaxTopK

\* the context chunks that may be cited
Citable(t) ==
    {i \in 1..Len(sorted_chunks[t]) :
        sorted_chunks[t][i].score >= CitationThreshold}

\* C10: on the answer path the sources are the context chunks scoring at
\* least 0.30, one entry per filename; with no such chunk the sources are
\* empty, the context is still the selected chunks, and the generation call
\* is made with that context.
C10_SourcesAreCitableContext ==
    \A t \in Tasks :
        path[t] = "ANSWER" =>
            LET ctx == sorted_chunks[t]
                src == sources[t]
            IN  /\ {src[i].filename : i \in 1..Len(src)} =
                       {ctx[i].filename : i \in Citable(t)}
                /\ \A i \in 1..Len(src) : \A j \in 1..Len(src) :
                       src[i].filename = src[j].filename => i = j
                /\ \A i \in 1..Len(src) : \E j \in Citable(t) :
                       /\ ctx[j].filename = src[i].filename
                       /\ src[i].score = Round3(ctx[j].score)
                       /\ src[i].preview = Preview(ctx[j].content)
                       /\ \A k \in Citable(t) :
                             ctx[k].filename = src[i].filename =>
                                 ctx[k].score <= ctx[j].score
                /\ Citable(t) = {} => src = <<>>
                /\ ctx # <<>>
                /\ context[t] = _build_context(ctx)
                /\ pc[t] = "rag_stream" =>
                       /\ LastCall(t).kind = "generate"
                       /\ LastCall(t).messages[Len(LastCall(t).messages)].content
                              = RagUserContent(question[t], context[t])

C10_Witness ==
    /\ path[1] = "ANSWER"
    /\ pc[1] = "rag_stream"
    /\ sources[1] = <<>>
    /\ Len(sorted_chunks[1]) = 2
    /\ \A i \in 1..Len(chunks[1]) : chunks[1][i].score < MinScore(1)
    /\ LastCall(1).kind = "generate"

(* ---------------------------------------------------------------------- *)
FilenamesOf(rows) == {rows[p].filename : p \in 1..Len(rows)}

MaxScoreOf(rows, f) ==
    CHOOSE m \in {rows[p].score : p \in {q \in 1..Len(rows) : rows[q].filename = f}} :
        \A p \in 1..Len(rows) : rows[p].filename = f => rows[p].score <= m

\* the first chunk of file f that has the file's maximum score
BestOf(rows, f) ==
    LET at == {p \in 1..Len(rows) :
                 rows[p].filename = f /\ rows[p].score = MaxScoreOf(rows, f)}
    IN  rows[CHOOSE p \in at : \A q \in at : p <= q]

\* C11: dedupe_sources returns exactly one entry per distinct filename of
\* its input; the entry carries the maximum score among that filename's
\* chunks (rounded to three decimals) and the preview of the first chunk
\* that achieved it; the entries are ordered by score descending.
C11_DedupeOnePerFilename ==
    dedupe_returned # <<>> =>
        LET rows == dedupe_chunks
            out == dedupe_returned[1]
        IN  /\ {out[a].filename : a \in 1..Len(out)} = FilenamesOf(rows)
            /\ Len(out) = Cardinality(FilenamesOf(rows))
            /\ \A a \in 1..Len(out) :
                 /\ DOMAIN out[a] = {"filename", "score", "preview"}
                 /\ out[a].score = Round3(MaxScoreOf(rows, out[a].filename))
                 /\ out[a].preview =
                      Preview(BestOf(rows, out[a].filename).content)
            /\ \A a, b \in 1..Len(out) : a < b => out[a].score >= out[b].score

\* C11 witness: a list of three chunks, two of one file with the same
\* maximum score and different contents, has been deduplicated to two entries
C11_Witness ==
    /\ Len(dedupe_returned) = 1
    /\ Len(dedupe_chunks) = 3
    /\ Len(dedupe_returned[1]) = 2
    /\ \E p, q \in 1..3 :
         /\ p < q
         /\ dedupe_chunks[p].filename = dedupe_chunks[q].filename
         /\ dedupe_chunks[p].score = dedupe_chunks[q].score
         /\ dedupe_chunks[p].score = MaxScoreOf(dedupe_chunks, dedupe_chunks[p].filename)
         /\ dedupe_chunks[p].content # dedupe_chunks[q].content

\* C12: dedupe_sources is idempotent: applied to a list that is itself a
\* result of dedupe_sources it returns that list unchanged, entry for entry
\* and field for field.
C12_DedupeIdempotent ==
    Len(dedupe_returned) = 2 => dedupe_returned[2] = dedupe_returned[1]

(* ---------------------------------------------------------------------- *)
\* the iterations of the loop of simple_chunks made so far
Iterations == SelectSeq(sc_slices, LAMBDA sl : sl.site # "short")

\* C13: simple_chunks terminates: from one iteration of its loop to the
\* next the start position i grows by at least one, the loop is entered
\* only with i inside the text, and so it makes at most length-of-text
\* iterations.
C13_ChunkingProgress ==
    /\ \A a \in 1..(Len(Iterations) - 1) :
         Iterations[a + 1].start >= Iterations[a].start + 1
    /\ \A a \in 1..Len(Iterations) :
         Iterations[a].start >= 0 /\ Iterations[a].start < Len(sc_text)
    /\ Len(Iterations) <= Len(sc_text)
    /\ sc_pc = "loop" =>
         /\ sc_i < Len(sc_text)
         /\ Iterations # <<>> => sc_i >= Iterations[Len(Iterations)].start + 1

\* C13 witness: a run of the loop has ended after an iteration that moved
\* i by exactly one character
C13_Witness ==
    /\ sc_pc = "done"
    /\ \E a \in 1..(Len(Iterations) - 1) :
         Iterations[a + 1].start = Iterations[a].start + 1

\* C14: chunk boundaries never skip characters: the first slice starts at
\* the start of the text, the start of each iteration's slice is at or
\* before the cut of the previous iteration, and the last slice runs to the
\* end of the text, so every character position of the normalized text lies
\* inside the [start, cut) slice of at least one iteration.
C14_NoCharacterSkipped ==
    /\ sc_slices # <<>> => sc_slices[1].start = 0
    /\ \A a \in 1..(Len(sc_slices) - 1) :
         /\ sc_slices[a + 1].start <= sc_slices[a].cut
         /\ sc_slices[a].start < sc_slices[a].cut
    /\ (sc_pc = "loop" /\ sc_slices # <<>>) =>
         sc_i <= sc_slices[Len(sc_slices)].cut
    /\ sc_pc = "done" =>
         /\ sc_slices # <<>>
         /\ sc_slices[Len(sc_slices)].cut = Len(sc_text)
         /\ \A p \in 0..(Len(sc_text) - 1) :
              \E a \in 1..Len(sc_slices) :
                  sc_slices[a].start <= p /\ p < sc_slices[a].cut

\* C14 witness: a text has been cut into three slices or more, one of them
\* starting exactly at the cut of the one before, and the last one has
\* reached the end of the text
C14_Witness ==
    /\ sc_pc = "done"
    /\ Len(sc_slices) >= 3
    /\ \E a \in 1..(Len(sc_slices) - 1) :
         sc_slices[a + 1].start = sc_slices[a].cut

\* C15: every string simple_chunks yields is non-empty, and a text that is
\* empty or whitespace-only after normalization yields no chunk at all, on
\* each of the three emit sites (short text, regular slice, final remainder).
C15_ChunksNonEmpty ==
    /\ \A a \in 1..Len(parts) : parts[a] # <<>>
    /\ (sc_pc = "done" /\ \A p \in 1..Len(sc_text) : sc_text[p] \in Whitespace)
         => parts = <<>>

(* ---------------------------------------------------------------------- *)
\* everything after the first len(prefix) characters of s
AfterPrefix(s, prefix) == SubSeq(s, Len(prefix) + 1, Len(s))

\* C16: resolve_model splits the identifier on its first colon only: for
\* '<provider>:<rest>' with provider openai or ollama the result is
\* (provider, rest), rest unchanged whatever it contains; an absent
\* identifier or one with another prefix gives the default pair.
C16_ResolveSplitsOnFirstColon ==
    resolved # None =>
        resolved[1] =
            IF model_string # None /\ StartsWith(model_string[1], OpenAIPrefix)
            THEN [provider |-> "openai",
                  model_name |-> AfterPrefix(model_string[1], OpenAIPrefix)]
            ELSE IF model_string # None /\ StartsWith(model_string[1], OllamaPrefix)
            THEN [provider |-> "ollama",
                  model_name |-> AfterPrefix(model_string[1], OllamaPrefix)]
            ELSE [provider |-> "openai", model_name |-> DEFAULT_OPENAI_MODEL]

(* ---------------------------------------------------------------------- *)
MetaEvents(t) == SelectSeq(events[t], LAMBDA e : e.type = "meta")

\* the generation calls the task has made
GenerateCalls(t) == SelectSeq(llm_calls[t], LAMBDA c : c.kind = "generate")

\* the fixed message of a path that answers without generating
CannedMessage(p) == IF p = "NO_DOCS" THEN no_docs_message ELSE no_info_message

\* the task's generator has yielded its final event
FinalYielded(t) == FinalEvents(t) # <<>>

\* C17: on NO_DOCS_PATH and NOT_FOUND_PATH no generation call is made after
\* classification and no delta event is emitted; the final event's text and
\* the persisted assistant message are the path's canned message verbatim;
\* the meta and the final event have sources = [] and the final event has
\* grounded = false (the meta event has no grounded field).
C17_CannedPaths ==
    \A t \in Tasks :
        path[t] \in {"NO_DOCS", "NOT_FOUND"} =>
            /\ GenerateCalls(t) = <<>>
            /\ Len(llm_calls[t]) = 1
            /\ DeltaTexts(t) = <<>>
            /\ \A a \in 1..Len(MetaEvents(t)) :
                 /\ MetaEvents(t)[a].sources = <<>>
                 /\ "grounded" \notin DOMAIN MetaEvents(t)[a]
            /\ \A a \in 1..Len(FinalEvents(t)) :
                 /\ FinalEvents(t)[a].text = CannedMessage(path[t])
                 /\ FinalEvents(t)[a].grounded = FALSE
                 /\ FinalEvents(t)[a].sources = <<>>
            /\ \A r \in RowsBy(t, "assistant") :
                 messages[r].content = CannedMessage(path[t])
            /\ FinalYielded(t) => Cardinality(RowsBy(t, "assistant")) = 1

\* C17 witness: a question asked of an empty store has been answered with
\* the no-documents message, stored and reported
C17_Witness ==
    /\ Completed(1)
    /\ path[1] = "NO_DOCS"
    /\ FinalEvents(1)[1].text = no_docs_message
    /\ \E r \in RowsBy(1, "assistant") : messages[r].content = no_docs_message

\* C17 second witness state: the refusal of the not-found path, reported
C17_WitnessNotFound ==
    /\ Completed(1)
    /\ path[1] = "NOT_FOUND"
    /\ FinalEvents(1)[1].text = no_info_message

\* C18: on GREETING_PATH, whether or not the store is empty, there is no
\* retrieval call and no canned reply: exactly one generation call is made
\* after classification, its messages are the persona system instruction,
\* the history and the question, without document context, the final text
\* is what that call streamed, and the meta and final events have
\* sources = [] and grounded = false.
C18_GreetingPath ==
    \A t \in Tasks :
        path[t] = "GREETING" =>
            /\ retrieval_calls[t] = 0
            /\ Len(GenerateCalls(t)) <= 1
            /\ (FinalYielded(t) \/ DeltaTexts(t) # <<>>) =>
                 Len(GenerateCalls(t)) = 1
            /\ \A a \in 1..Len(GenerateCalls(t)) :
                 LET ms == GenerateCalls(t)[a].messages
                     history == payload[t][1].history
                 IN  /\ Len(ms) = Len(history) + 2
                     /\ ms[1] = [role |-> "system", content |-> GreetingSystemPrompt]
                     /\ \A h \in 1..Len(history) :
                          /\ ms[h + 1].role = history[h].role
                          /\ ms[h + 1].content = history[h].content
                     /\ ms[Len(ms)] = [role |-> "user", content |-> question[t]]
            /\ \A a \in 1..Len(MetaEvents(t)) : MetaEvents(t)[a].sources = <<>>
            /\ \A a \in 1..Len(FinalEvents(t)) :
                 /\ FinalEvents(t)[a].text = Concat(DeltaTexts(t))
                 /\ FinalEvents(t)[a].grounded = FALSE
                 /\ FinalEvents(t)[a].sources = <<>>

\* C18 witness: a greeting asked of an empty store, with history, has been
\* answered by a generation call that streamed a fragment
C18_Witness ==
    /\ Completed(1)
    /\ path[1] = "GREETING"
    /\ intent[1] = Greeting
    /\ documents = {} /\ ~has_documents[1]
    /\ payload[1][1].history # <<>>
    /\ DeltaTexts(1) # <<>>

\* C18 second witness state: a greeting answered while documents are stored
C18_WitnessWithDocuments ==
    /\ Completed(1)
    /\ path[1] = "GREETING"
    /\ has_documents[1]

\* the citation list of the answer path: the deduplicated context chunks
\* that score at least 0.30
GatedSources(t) ==
    dedupe_sources(SelectSeq(sorted_chunks[t],
                             LAMBDA c : c.score >= CitationThreshold))

\* C19: on ANSWER_PATH the final event has grounded = true and the meta
\* event, the final event and the persisted assistant message all carry the
\* same gated citation list; the generation call receives the system
\* instruction first, then the history turns in their order, then one user
\* turn containing the question and the assembled context.
C19_AnswerPath ==
    \A t \in Tasks :
        path[t] = "ANSWER" =>
            /\ \A a \in 1..Len(MetaEvents(t)) :
                 MetaEvents(t)[a].sources = GatedSources(t)
            /\ \A a \in 1..Len(FinalEvents(t)) :
                 /\ FinalEvents(t)[a].grounded = TRUE
                 /\ FinalEvents(t)[a].sources = GatedSources(t)
            /\ \A r \in RowsBy(t, "assistant") :
                 messages[r].sources = Some(JsonDumps(GatedSources(t)))
            /\ FinalYielded(t) => Cardinality(RowsBy(t, "assistant")) = 1
            /\ Len(GenerateCalls(t)) <= 1
            /\ (FinalYielded(t) \/ DeltaTexts(t) # <<>>) =>
                 Len(GenerateCalls(t)) = 1
            /\ \A a \in 1..Len(GenerateCalls(t)) :
                 LET ms == GenerateCalls(t)[a].messages
                     history == payload[t][1].history
                 IN  /\ Len(ms) = Len(history) + 2
                     /\ ms[1] = [role |-> "system", content |-> RagSystemPrompt]
                     /\ \A h \in 1..Len(history) :
                          /\ ms[h + 1].role = history[h].role
                          /\ ms[h + 1].content = history[h].content
                     /\ ms[Len(ms)].role = "user"
                     /\ ms[Len(ms)].content =
                          QuestionLabel \o question[t] \o ContextLabel
                              \o _build_context(sorted_chunks[t])

\* C19 witness: a factual question with history has been answered from the
\* documents with a non-empty citation list
C19_Witness ==
    /\ Completed(1)
    /\ path[1] = "ANSWER"
    /\ payload[1][1].history # <<>>
    /\ GatedSources(1) # <<>>
    /\ FinalEvents(1)[1].sources = GatedSources(1)
    /\ context[1] # <<>>

\* C20: when the generation call fails after streaming has begun, the
\* failure is surfaced to the client as an explicit error event: the stream
\* never simply stops after the last delta.
C20_GenerationFailureSurfaced ==
    \A t \in Tasks :
        (pc[t] = "failed" /\ provider_status[t] = "failed"
            /\ DeltaTexts(t) # <<>>) =>
            events[t][Len(events[t])].type = "error"

(* ---------------------------------------------------------------------- *)
\* C21: an unknown conversation id is surfaced as not-found on fetch and on
\* delete: a request naming an id that is not in the table (never created,
\* or deleted before) is answered 404, never with success; and once an
\* existing conversation is deleted its messages are gone and a later fetch
\* of the id is answered 404.
C21_UnknownIdIsNotFound ==
    /\ \A a \in 1..Len(responses) :
         ~responses[a].existed => responses[a].status = 404
    /\ \A a \in 1..Len(responses) :
         (responses[a].route = "delete" /\ responses[a].existed) =>
            /\ \A m \in 1..Len(messages) :
                 messages[m].conversation_id # responses[a].conversation_id
            /\ \A b \in (a + 1)..Len(responses) :
                 (responses[b].route = "get"
                    /\ responses[b].conversation_id = responses[a].conversation_id)
                 => responses[b].status = 404

(* ---------------------------------------------------------------------- *)
\* C22: a request with an empty question, a top_k outside 1..20 or a
\* min_score outside [0,1] is rejected before any store, classification,
\* retrieval or generation call; so the question the pipeline stores as the
\* user message and passes to the classifier is never the empty string.
C22_ValidatedQuestionNonEmpty ==
    \A t \in Tasks :
        /\ pc[t] = "idle" =>
             /\ RowsBy(t, "user") = {} /\ llm_calls[t] = <<>>
             /\ retrieval_calls[t] = 0
        /\ pc[t] # "idle" =>
             /\ Len(payload[t][1].question) >= 1
             /\ payload[t][1].top_k \in 1..20
             /\ payload[t][1].min_score >= 0 /\ payload[t][1].min_score <= 10000
             /\ question[t] # <<>>
             /\ \A r \in RowsBy(t, "user") : messages[r].content # <<>>
             /\ llm_calls[t][1].messages[1].content # classification_prompt(<<>>)

(* ---------------------------------------------------------------------- *)
\* the questions received so far that came without a chat_id
Unidentified == {t \in Tasks : pc[t] # "idle" /\ payload[t][1].chat_id = None}

\* C23: a conversation is created at most once per question: exactly once
\* when the request carries no chat_id and never when it carries one; the
\* user message, the assistant message and the final event's conversation_id
\* all use that single id.
C23_OneConversationPerQuestion ==
    /\ next_conversation_id = 2 + Cardinality(Unidentified)
    /\ conversations = 1..(next_conversation_id - 1)
    /\ \A t \in Tasks :
         pc[t] # "idle" =>
            /\ IF payload[t][1].chat_id = None
               THEN chat_id[t] >= 2 /\ chat_id[t] < next_conversation_id
               ELSE chat_id[t] = payload[t][1].chat_id[1]
            /\ \A r \in RowsBy(t, "user") \cup RowsBy(t, "assistant") :
                 messages[r].conversation_id = chat_id[t]
            /\ \A a \in 1..Len(FinalEvents(t)) :
                 FinalEvents(t)[a].conversation_id = chat_id[t]

\* C23 witness: a question that named conversation 1 has been answered into
\* it and no conversation was created
C23_Witness ==
    /\ Completed(1)
    /\ payload[1][1].chat_id = Some(1)
    /\ next_conversation_id = 2
    /\ FinalEvents(1)[1].conversation_id = 1
    /\ Cardinality(RowsBy(1, "assistant")) = 1

\* C23 second witness state: a question without chat_id answered into the
\* one conversation created for it
C23_WitnessCreated ==
    /\ Completed(1)
    /\ payload[1][1].chat_id = None
    /\ next_conversation_id = 3
    /\ FinalEvents(1)[1].conversation_id = 2

(* ---------------------------------------------------------------------- *)
\* the decimal digits of k >= 1, most significant first
DecimalOf(k) ==
    IF k < 10 THEN <<Digits[k + 1]>>
    ELSE <<Digits[(k \div 10) + 1], Digits[(k % 10) + 1]>>

\* the length of the k-th segment: "[", the digits of k, "] ", the content
SegmentLen(rows, k) ==
    3 + Len(DecimalOf(k))
      + (IF Len(rows[k].content) <= 800 THEN Len(rows[k].content) ELSE 800)

\* where the k-th segment starts in the context (0-based offset)
RECURSIVE SegmentOffset(_, _)
SegmentOffset(rows, k) ==
    IF k = 1 THEN 0
    ELSE SegmentOffset(rows, k - 1) + SegmentLen(rows, k - 1) + 7

\* C24: the context built from N chunks consists of exactly N segments in
\* input order, the k-th being '[k] ' (k counted from 1) followed by the
\* first 800 characters at most of the k-th chunk's content, joined by the
\* separator (blank line, ---, blank line); building it again from the same
\* list gives the same string.
C24_ContextSegments ==
    context_built # <<>> =>
        LET rows == context_rows
            ctx == context_built[1]
            N == Len(rows)
        IN  /\ Len(ctx) = IF N = 0 THEN 0
                          ELSE SegmentOffset(rows, N) + SegmentLen(rows, N)
            /\ \A k \in 1..N :
                 LET off == SegmentOffset(rows, k)
                     d == Len(DecimalOf(k))
                     body == SegmentLen(rows, k) - 3 - d
                 IN  /\ ctx[off + 1] = "["
                     /\ SubSeq(ctx, off + 2, off + 1 + d) = DecimalOf(k)
                     /\ ctx[off + 2 + d] = "]"
                     /\ ctx[off + 3 + d] = " "
                     /\ \A p \in 1..body : ctx[off + 3 + d + p] = rows[k].content[p]
                     /\ k < N =>
                          SubSeq(ctx, off + SegmentLen(rows, k) + 1,
                                 off + SegmentLen(rows, k) + 7)
                            = <<"\n", "\n", "-", "-", "-", "\n", "\n">>
            /\ \A a \in 1..Len(context_built) : context_built[a] = ctx

\* C24 witness: a context has been built twice from three chunks, one of
\* them longer than 800 characters and cut
C24_Witness ==
    /\ Len(context_built) = 2
    /\ Len(context_rows) = 3
    /\ Len(context_rows[2].content) > 800
    /\ Len(context_rows[3].content) = 1
    /\ Len(context_built[1]) = 4 + 0 + 7 + 4 + 800 + 7 + 4 + 1
    /\ context_rows[1].content = <<>>

\* C24 second witness state: a context of twelve segments
C24_WitnessTwoDigits ==
    /\ context_built # <<>>
    /\ Len(context_rows) = 12

(* ---------------------------------------------------------------------- *)
\* the 0-based indices in the window [a, b) at which sub occurs entirely
\* inside the window
Occurrences(text, sub, a, b) ==
    {p \in a..(b - Len(sub)) : \A d \in 1..Len(sub) : text[p + d] = sub[d]}

Last(S) == CHOOSE p \in S : \A q \in S : q <= p

\* the right edge of the window of an iteration that starts at start and
\* is not the final one
WindowEdge(start) == start + 1200

\* the cut the priority order gives; far is how far from the window edge a
\* space may be to be cut at (the window's length when there is no limit)
RuleCut(text, start, far) ==
    LET j == WindowEdge(start)
        paragraphs == Occurrences(text, <<"\n", "\n">>, start, j)
        newlines == Occurrences(text, <<"\n">>, start, j)
        sentences == Occurrences(text, <<".", " ">>, start, j)
        spaces == Occurrences(text, <<" ">>, start, j)
    IN  IF paragraphs # {} THEN Last(paragraphs) + 2
        ELSE IF newlines # {} THEN Last(newlines) + 1
        ELSE IF sentences # {} /\ j - Last(sentences) <= 180
             THEN Last(sentences) + 2
        ELSE IF spaces # {} /\ j - Last(spaces) <= far THEN Last(spaces)
        ELSE j

\* the iterations made so far whose cut the rule chose (every iteration
\* but a final one); the newest is the one the last step made
NewestSlice ==
    IF Len(sc_slices) > 0 /\ sc_slices[Len(sc_slices)].site = "slice"
    THEN {sc_slices[Len(sc_slices)]}
    ELSE {}

\* C25 as stated: in every non-final iteration the cut is chosen by the
\* first applicable rule of (a) after the last double newline, (b) after the
\* last newline, (c) after the last period+space within 180 of the window
\* edge, (d) the last space, whatever its distance from the edge, (e) the
\* window edge.
C25_CutPriorityAnySpace ==
    \A slice \in NewestSlice :
        slice.cut = RuleCut(sc_text, slice.start, 1200)

\* C25 amended: as above, with (d) the last space only if it lies within
\* 180 characters of the window edge; a space farther away is passed over
\* and the cut is at the window edge.
C25_CutPriority ==
    \A slice \in NewestSlice :
        slice.cut = RuleCut(sc_text, slice.start, 180)

\* C25 witness: an iteration whose window holds no line break and no
\* sentence end near its edge, and a space more than 180 before the edge,
\* has cut at the edge
C25_Witness ==
    \E a \in 1..Len(sc_slices) :
        LET start == sc_slices[a].start
            spaces == Occurrences(sc_text, <<" ">>, start, WindowEdge(start))
        IN  /\ sc_slices[a].site = "slice"
            /\ Occurrences(sc_text, <<"\n">>, start, WindowEdge(start)) = {}
            /\ spaces # {}
            /\ WindowEdge(start) - Last(spaces) > 180
            /\ sc_slices[a].cut = WindowEdge(start)

\* C25 second witness state: an iteration that cut at a space near the edge
C25_WitnessNearSpace ==
    \E a \in 1..Len(sc_slices) :
        LET start == sc_slices[a].start
            spaces == Occurrences(sc_text, <<" ">>, start, WindowEdge(start))
        IN  /\ sc_slices[a].site = "slice"
            /\ spaces # {}
            /\ sc_slices[a].cut = Last(spaces)

(* ---------------------------------------------------------------------- *)
\* the final events the stream of task t has carried, as a set
FinalEventSet(t) == {FinalEvents(t)[i] : i \in 1..Len(FinalEvents(t))}

\* the rows of conversation_messages that hold what the final event e of
\* task t reports: the assistant message of t with e's text, provider,
\* model and sources, created at e's timestamp
RowsReportedBy(t, e) ==
    {m \in 1..Len(messages) :
        /\ messages[m].by = t
        /\ messages[m].role = "assistant"
        /\ messages[m].conversation_id = e.conversation_id
        /\ messages[m].content = e.text
        /\ messages[m].model_provider = Some(e.model_provider)
        /\ messages[m].model_name = Some(e.model_name)
        /\ messages[m].sources = Some(JsonDumps(e.sources))
        /\ IsoFormat(messages[m].created_at) = e.timestamp}

\* C26: on every path, once the final event has been emitted the assistant
\* message is in the table, its content the final event's text, its
\* provider, model and sources the final event's, and the final event's
\* timestamp the one its append returned.
C26_FinalReportsStoredMessage ==
    \A t \in Tasks : \A e \in FinalEventSet(t) :
        Cardinality(RowsReportedBy(t, e)) = 1

\* C26 witness: an answer whose accumulated text had surrounding whitespace
\* has been stored and reported with its sources
C26_Witness ==
    \E e \in FinalEventSet(1) :
        /\ path[1] = "ANSWER"
        /\ e.sources # <<>>
        /\ e.text # full_response[1]
        /\ RowsReportedBy(1, e) # {}

\* C26 second witness state: a canned refusal has been stored and reported
C26_WitnessCanned ==
    \E e \in FinalEventSet(1) :
        /\ e.text \in {no_docs_message, no_info_message}
        /\ RowsReportedBy(1, e) # {}

(* ---------------------------------------------------------------------- *)
\* the task is on a path that generates its answer
Generating(t) == path[t] \in {"GREETING", "ANSWER"}

\* the task's generation call has begun and its stream has not been
\* consumed to its end: it is still streaming, or it has failed
StreamUnfinished(t) ==
    /\ GenerateCalls(t) # <<>>
    /\ provider_status[t] \in {"streaming", "failed"}

\* everything the provider has streamed to the task's generation call
Streamed(t) == Concat(provider_out[t])

\* C27: on the generating paths the assistant message is in the table only
\* once the provider's stream has been consumed to completion, and then it
\* holds the whole streamed text; while the stream is unfinished, and after
\* it failed part-way or the consumer stopped, no assistant message of the
\* question is in the table.
C27_NoPartialResponseStored ==
    \A t \in Tasks :
        Generating(t) =>
            /\ StreamUnfinished(t) => RowsBy(t, "assistant") = {}
            /\ \A m \in RowsBy(t, "assistant") :
                   /\ provider_status[t] = "completed"
                   /\ GenerateCalls(t) # <<>>
                   /\ messages[m].content =
                        (IF path[t] = "ANSWER" THEN Strip(Streamed(t))
                         ELSE Streamed(t))

\* C27 witness: the provider failed after it had streamed a fragment that
\* was passed on as a delta, and no assistant message was stored
C27_Witness ==
    /\ Generating(1)
    /\ pc[1] = "failed"
    /\ provider_status[1] = "failed"
    /\ Streamed(1) # <<>>
    /\ DeltaTexts(1) # <<>>
    /\ RowsBy(1, "assistant") = {}

\* C27 second witness state: the consumer stopped between two fragments
C27_WitnessDisconnect ==
    /\ Generating(1)
    /\ pc[1] = "closed"
    /\ provider_status[1] = "streaming"
    /\ Streamed(1) # <<>>
    /\ RowsBy(1, "assistant") = {}

\* C27 third witness state: a stream consumed to its end, its text stored
C27_WitnessCompleted ==
    /\ Generating(1)
    /\ Streamed(1) # <<>>
    /\ RowsBy(1, "assistant") # {}

(* ---------------------------------------------------------------------- *)
\* the text the question of task t is answered with, from its own path and
\* the fragments of its own generation call
OwnText(t) ==
    IF path[t] = "ANSWER" THEN Strip(Streamed(t))
    ELSE IF path[t] = "GREETING" THEN Streamed(t)
    ELSE CannedMessage(path[t])

\* the citation list of the question of task t, from its own retrieval
OwnSources(t) ==
    IF path[t] = "ANSWER"
    THEN dedupe_sources(RelevantChunks(SortedChunks(
             StrongChunks(chunks[t], payload[t][1].min_score))))
    ELSE <<>>

\* C28: with two questions interleaved at every step, on the same or on
\* different conversations, each question's retrieval rows are scored for
\* its own question, its delta events are its own provider fragments, its
\* meta and final events and its assistant message carry its own text and
\* its own citation list on its own conversation, and it appends exactly one
\* user message (its own question) and at most one assistant message (one
\* once its final event is out).
C28_QuestionsIsolated ==
    \A t \in Askers :
        pc[t] # "idle" =>
            /\ \A c \in 1..Len(chunks[t]) :
                   chunks[t][c] = Row(question[t], chunks[t][c].id)
            /\ DeltaTexts(t) =
                   (IF GenerateCalls(t) = <<>> THEN <<>> ELSE provider_out[t])
            /\ \A a \in 1..Len(MetaEvents(t)) :
                   MetaEvents(t)[a].sources = OwnSources(t)
            /\ \A e \in FinalEventSet(t) :
                   /\ e.text = OwnText(t)
                   /\ e.sources = OwnSources(t)
                   /\ e.conversation_id = chat_id[t]
            /\ Cardinality(RowsBy(t, "user")) = 1
            /\ \A m \in RowsBy(t, "user") :
                   /\ messages[m].content = question[t]
                   /\ messages[m].conversation_id = chat_id[t]
            /\ Cardinality(RowsBy(t, "assistant")) =
                   (IF FinalYielded(t) THEN 1 ELSE 0)
            /\ \A m \in RowsBy(t, "assistant") :
                   /\ messages[m].content = OwnText(t)
                   /\ messages[m].sources = Some(JsonDumps(OwnSources(t)))
                   /\ messages[m].conversation_id = chat_id[t]

\* C28 witness: two different questions on the same conversation have both
\* been answered from the documents, the second one asked after and
\* answered before the first
C28_Witness ==
    /\ Completed(1) /\ Completed(2)
    /\ chat_id[1] = chat_id[2]
    /\ question[1] # question[2]
    /\ path[1] = "ANSWER" /\ path[2] = "ANSWER"
    /\ DeltaTexts(1) # <<>> /\ DeltaTexts(2) # <<>>
    /\ OwnSources(1) # <<>>
    /\ \E u1 \in RowsBy(1, "user") : \E u2 \in RowsBy(2, "user") :
       \E a1 \in RowsBy(1, "assistant") : \E a2 \in RowsBy(2, "assistant") :
           u1 < u2 /\ u2 < a2 /\ a2 < a1

\* C28 second witness state: two questions on two new conversations, both
\* generating at the same time
C28_WitnessTwoConversations ==
    /\ chat_id[1] # chat_id[2]
    /\ payload[1] # None /\ payload[2] # None
    /\ payload[1][1].chat_id = None /\ payload[2][1].chat_id = None
    /\ pc[1] \in {"rag_stream", "greeting_stream"}
    /\ pc[2] \in {"rag_stream", "greeting_stream"}
    /\ provider_out[1] # <<>> /\ provider_out[2] # <<>>

(* ---------------------------------------------------------------------- *)
\* C29: across successive iterations of simple_chunks the cut strictly
\* increases, so that every slice after the first reaches beyond the cut
\* before it and none lies wholly inside the overlap tail of the previous
\* slice.
C29_CutStrictlyIncreases ==
    \A a \in 2..Len(sc_slices) : sc_slices[a].cut > sc_slices[a - 1].cut

(* ---------------------------------------------------------------------- *)
\* the retrieval of task t has returned
Retrieved(t) == retrieval_calls[t] > 0

\* C30: min_score alone never causes a refusal. Once retrieval has returned
\* at least one candidate (the store was non-empty and the intent factual,
\* or retrieval would not have run) the question is on the answer path with
\* a non-empty context, whatever min_score is, and its generation call,
\* once made, is the only one; the question is on the not-found path only
\* when retrieval returned no candidate.
C30_ThresholdNeverRefuses ==
    \A t \in Tasks :
        /\ Retrieved(t) => (intent[t] = Factual /\ has_documents[t])
        /\ (Retrieved(t) /\ chunks[t] # <<>>) =>
               /\ path[t] = "ANSWER"
               /\ sorted_chunks[t] # <<>>
               /\ context[t] # <<>>
               /\ Len(GenerateCalls(t)) <= 1
               /\ pc[t] = "rag_stream" => Len(GenerateCalls(t)) = 1
        /\ path[t] = "NOT_FOUND" => (Retrieved(t) /\ chunks[t] = <<>>)

\* C30 witness: with min_score above the score of every candidate the
\* generation call of the answer path has been made
C30_Witness ==
    /\ Retrieved(1)
    /\ chunks[1] # <<>>
    /\ \A c \in 1..Len(chunks[1]) : chunks[1][c].score < payload[1][1].min_score
    /\ path[1] = "ANSWER"
    /\ pc[1] = "rag_stream"
    /\ Len(GenerateCalls(1)) = 1

\* C30 second witness state: retrieval returned nothing (the documents were
\* deleted after the store was found non-empty) and the question is refused
C30_WitnessNoCandidates ==
    /\ Retrieved(1)
    /\ chunks[1] = <<>>
    /\ path[1] = "NOT_FOUND"

====
